---------------------------- MODULE Spec2Model ----------------------------
(***************************************************************************)
(* Bitboard move generation of jparkhouse/chess_engine.                    *)
(*                                                                         *)
(* A u64 bitmask is modelled as the set of its set bit indices (0..63):    *)
(* TLC's integers are 32 bits wide, the masks are 64.  Bit 0 is h1, bit 7  *)
(* is a1, bit 63 is a8 (coordinates.rs).  `|`, `&` and `!` are union,      *)
(* intersection and complement in 0..63; `<<` and `>>` move every index    *)
(* and drop what leaves 0..63, as the u64 shifts do.                       *)
(***************************************************************************)
EXTENDS Integers, Sequences, FiniteSets, TLC

VARIABLES pc, map, board, call, ret

vars == <<pc, map, board, call, ret>>

(***************************************************************************)
(* u64 arithmetic on bit sets                                              *)
(***************************************************************************)
WordBits == 64

Bits == 0 .. (WordBits - 1)

Shl(m, n) == {i + n : i \in m} \cap Bits

Shr(m, n) == {i - n : i \in m} \cap Bits

BitNot(m) == Bits \ m

\* u64::trailing_zeros: the index of the lowest set bit, 64 for 0
trailing_zeros(m) == IF m = {} THEN WordBits
                     ELSE CHOOSE i \in m : \A j \in m : i <= j

\* bitmask - 1 for bitmask /= 0: the lowest set bit is cleared, the bits below it set
MinusOne(m) == LET tz == trailing_zeros(m) IN (m \ {tz}) \cup (0 .. (tz - 1))

has_one_bit_set(bitmask) == bitmask /= {} /\ (bitmask \cap MinusOne(bitmask)) = {}

single_bit_bitmask_to_u8(bitmask) == trailing_zeros(bitmask)

(***************************************************************************)
(* Files and ranks                                                         *)
(***************************************************************************)
XNames == <<"A", "B", "C", "D", "E", "F", "G", "H">>

YNames == <<"One", "Two", "Three", "Four", "Five", "Six", "Seven", "Eight">>

XCoords == {XNames[i] : i \in 1 .. 8}

YCoords == {YNames[i] : i \in 1 .. 8}

\* 0x0101010101010101: bit 0 of every byte
FileH == {8 * k : k \in 0 .. 7}

\* 0xFF
RankOne == 0 .. 7

XIndex(x) == CHOOSE i \in 1 .. 8 : XNames[i] = x

YIndex(y) == CHOOSE i \in 1 .. 8 : YNames[i] = y

\* XCoordinate as u64: A = 0x0101010101010101 << 7, ..., H = 0x0101010101010101
XCoordinate == [x \in XCoords |-> Shl(FileH, 8 - XIndex(x))]

\* YCoordinate as u64: One = 0xFF, Two = 0xFF << 8, ...
YCoordinate == [y \in YCoords |-> Shl(RankOne, 8 * (YIndex(y) - 1))]

(***************************************************************************)
(* Directions and the edge-aware shift                                     *)
(***************************************************************************)
KingDirections == {"Up", "UpRight", "Right", "DownRight",
                   "Down", "DownLeft", "Left", "UpLeft"}

KnightDirections == {"KnightOne", "KnightTwo", "KnightFour", "KnightFive",
                     "KnightSeven", "KnightEight", "KnightTen", "KnightEleven"}

ChessDirection == KingDirections \cup KnightDirections

get_valid_space(move_type) ==
  CASE move_type = "Up"        -> BitNot(YCoordinate["Eight"])
    [] move_type = "UpRight"   -> BitNot(YCoordinate["Eight"] \cup XCoordinate["H"])
    [] move_type = "Right"     -> BitNot(XCoordinate["H"])
    [] move_type = "DownRight" -> BitNot(YCoordinate["One"] \cup XCoordinate["H"])
    [] move_type = "Down"      -> BitNot(YCoordinate["One"])
    [] move_type = "DownLeft"  -> BitNot(YCoordinate["One"] \cup XCoordinate["A"])
    [] move_type = "Left"      -> BitNot(XCoordinate["A"])
    [] move_type = "UpLeft"    -> BitNot(XCoordinate["A"] \cup YCoordinate["Eight"])
    [] move_type = "KnightOne" ->
         BitNot(YCoordinate["Seven"] \cup YCoordinate["Eight"] \cup XCoordinate["H"])
    [] move_type = "KnightTwo" ->
         BitNot(YCoordinate["Eight"] \cup XCoordinate["G"] \cup XCoordinate["H"])
    [] move_type = "KnightFour" ->
         BitNot(YCoordinate["One"] \cup XCoordinate["G"] \cup XCoordinate["H"])
    [] move_type = "KnightFive" ->
         BitNot(YCoordinate["One"] \cup YCoordinate["Two"] \cup XCoordinate["H"])
    [] move_type = "KnightSeven" ->
         BitNot(YCoordinate["One"] \cup YCoordinate["Two"] \cup XCoordinate["A"])
    [] move_type = "KnightEight" ->
         BitNot(YCoordinate["One"] \cup XCoordinate["A"] \cup XCoordinate["B"])
    [] move_type = "KnightTen" ->
         BitNot(YCoordinate["Eight"] \cup XCoordinate["A"] \cup XCoordinate["B"])
    [] move_type = "KnightEleven" ->
         BitNot(YCoordinate["Seven"] \cup YCoordinate["Eight"] \cup XCoordinate["A"])

\* a plausible slip: the Left/Right steps lose their file mask
valid_pieces_unmasked(m, direction) ==
  IF direction \in {"Left", "Right"} THEN m ELSE m \cap get_valid_space(direction)

\* let valid_pieces = self & get_valid_space(direction)
valid_pieces(m, direction) == m \cap get_valid_space(direction)

\* the four primitive arms of shift_move: a single u64 shift of the valid pieces
ShiftStep(m, direction) ==
  CASE direction = "Up"    -> Shl(valid_pieces(m, direction), 8)
    [] direction = "Right" -> Shr(valid_pieces(m, direction), 1)
    [] direction = "Down"  -> Shr(valid_pieces(m, direction), 8)
    [] direction = "Left"  -> Shl(valid_pieces(m, direction), 1)
\* a plausible slip: the KnightSeven arm a copy of the KnightEight arm
ShiftChain_slip(direction) ==
  CASE direction = "Up"           -> <<"Up">>
    [] direction = "Right"        -> <<"Right">>
    [] direction = "Down"         -> <<"Down">>
    [] direction = "Left"         -> <<"Left">>
    [] direction = "UpRight"      -> <<"Up", "Right">>
    [] direction = "DownRight"    -> <<"Down", "Right">>
    [] direction = "DownLeft"     -> <<"Down", "Left">>
    [] direction = "UpLeft"       -> <<"Up", "Left">>
    [] direction = "KnightOne"    -> <<"Up", "Up", "Right">>
    [] direction = "KnightTwo"    -> <<"Up", "Right", "Right">>
    [] direction = "KnightFour"   -> <<"Down", "Right", "Right">>
    [] direction = "KnightFive"   -> <<"Down", "Down", "Right">>
    [] direction = "KnightSeven"  -> <<"Down", "Left", "Left">>
    [] direction = "KnightEight"  -> <<"Down", "Left", "Left">>
    [] direction = "KnightTen"    -> <<"Up", "Left", "Left">>
    [] direction = "KnightEleven" -> <<"Up", "Up", "Left">>

\* the composite arms: the chain of primitive shift_move calls of each direction
ShiftChain(direction) ==
  CASE direction = "Up"           -> <<"Up">>
    [] direction = "Right"        -> <<"Right">>
    [] direction = "Down"         -> <<"Down">>
    [] direction = "Left"         -> <<"Left">>
    [] direction = "UpRight"      -> <<"Up", "Right">>
    [] direction = "DownRight"    -> <<"Down", "Right">>
    [] direction = "DownLeft"     -> <<"Down", "Left">>
    [] direction = "UpLeft"       -> <<"Up", "Left">>
    [] direction = "KnightOne"    -> <<"Up", "Up", "Right">>
    [] direction = "KnightTwo"    -> <<"Up", "Right", "Right">>
    [] direction = "KnightFour"   -> <<"Down", "Right", "Right">>
    [] direction = "KnightFive"   -> <<"Down", "Down", "Right">>
    [] direction = "KnightSeven"  -> <<"Down", "Down", "Left">>
    [] direction = "KnightEight"  -> <<"Down", "Left", "Left">>
    [] direction = "KnightTen"    -> <<"Up", "Left", "Left">>
    [] direction = "KnightEleven" -> <<"Up", "Up", "Left">>

RECURSIVE ApplyChain(_, _)
ApplyChain(m, chain) ==
  IF chain = <<>> THEN m
  ELSE ApplyChain(ShiftStep(m, Head(chain)), Tail(chain))

\* ChessShiftMove::shift_move for u64
shift_move(m, direction) ==
  ApplyChain(valid_pieces(m, direction), ShiftChain(direction))

(***************************************************************************)
(* Pieces, squares and the two board representations                       *)
(***************************************************************************)
WhitePieceEnums == {"WhitePawn", "WhiteKnight", "WhiteBishop",
                    "WhiteRook", "WhiteQueen", "WhiteKing"}

BlackPieceEnums == {"BlackPawn", "BlackKnight", "BlackBishop",
                    "BlackRook", "BlackQueen", "BlackKing"}

PieceEnum == WhitePieceEnums \cup BlackPieceEnums

\* BoardHashMap::new
EmptyMap == [k \in {} |-> "WhitePawn"]

\* BoardBitmasks::new
NewBoard ==
  [all_pieces |-> {}, white_pieces |-> {}, white_pawns |-> {},
   white_knights |-> {}, white_bishops |-> {}, white_rooks |-> {},
   white_queens |-> {}, white_kings |-> {}, black_pieces |-> {},
   black_pawns |-> {}, black_knights |-> {}, black_bishops |-> {},
   black_rooks |-> {}, black_queens |-> {}, black_kings |-> {}]

(***************************************************************************)
(* CoordinatePosition (coordinate_point.rs) and the mask conversions of    *)
(* XCoordinate / YCoordinate (coordinates.rs)                              *)
(***************************************************************************)
Ok(v) == [ok |-> TRUE, val |-> v]

Err(e) == [ok |-> FALSE, err |-> e]

\* CoordinateConversion<u64>::try_from_value for XCoordinate: the loop over
\* [A..H] counts the files that meet the mask and keeps the last one
XFromMask(value) ==
  LET hits == {i \in 1 .. 8 : value \cap XCoordinate[XNames[i]] /= {}}
      output == IF hits = {} THEN "A"
                ELSE XNames[CHOOSE i \in hits : \A j \in hits : j <= i]
  IN IF Cardinality(hits) > 1
       THEN Err([kind |-> "XCoordinateFromInvalidBitmask", mask |-> value])
       ELSE Ok(output)

\* CoordinateConversion<u64>::try_from_value for YCoordinate
YFromMask(value) ==
  LET hits == {i \in 1 .. 8 : value \cap YCoordinate[YNames[i]] /= {}}
      output == IF hits = {} THEN "One"
                ELSE YNames[CHOOSE i \in hits : \A j \in hits : j <= i]
  IN IF Cardinality(hits) > 1
       THEN Err([kind |-> "YCoordinateFromInvalidBitmask", mask |-> value])
       ELSE Ok(output)
\* a plausible slip: the has_one_bit_set gate left out, so that a mask of
\* several bits reaches the per-file and per-rank conversions
from_bitmask_slip(bitmask) ==
  IF bitmask /= {}
    THEN LET x_enum == XFromMask(bitmask)
             y_enum == YFromMask(bitmask)
         IN IF ~x_enum.ok THEN x_enum
            ELSE IF ~y_enum.ok THEN y_enum
            ELSE Ok([x |-> x_enum.val, y |-> y_enum.val])
    ELSE Err([kind |-> "XYCoordinatesFromEmptyBitmask", mask |-> bitmask])

\* CoordinatePosition::from_bitmask
from_bitmask(bitmask) ==
  IF has_one_bit_set(bitmask)
    THEN LET x_enum == XFromMask(bitmask)
             y_enum == YFromMask(bitmask)
         IN IF ~x_enum.ok THEN x_enum
            ELSE IF ~y_enum.ok THEN y_enum
            ELSE Ok([x |-> x_enum.val, y |-> y_enum.val])
  ELSE IF bitmask /= {}
    THEN Err([kind |-> "XYCoordinatesFromMultiBitBitmask", mask |-> bitmask])
    ELSE Err([kind |-> "XYCoordinatesFromEmptyBitmask", mask |-> bitmask])

\* CoordinatePosition::to_bitmask: all_x & all_y
to_bitmask(coord) == XCoordinate[coord.x] \cap YCoordinate[coord.y]

CoordinatePositions == [x : XCoords, y : YCoords]

(***************************************************************************)
(* BoardHashMap (board_hash_map.rs): HashMap<u8, PieceEnum>                *)
(***************************************************************************)
MapPut(m, key, piece) ==
  [k \in (DOMAIN m) \cup {key} |-> IF k = key THEN piece ELSE m[k]]
\* a plausible slip: the replace flag not consulted
insert_slip(m, point, piece, replace) ==
  LET key == single_bit_bitmask_to_u8(to_bitmask(point))
  IN [map |-> MapPut(m, key, piece), result |-> Ok("unit")]

\* BoardHashMap::insert: the new map and the Result
insert(m, point, piece, replace) ==
  LET key == single_bit_bitmask_to_u8(to_bitmask(point))
      current_is_none == key \notin DOMAIN m
  IN IF replace \/ current_is_none
       THEN [map |-> MapPut(m, key, piece), result |-> Ok("unit")]
       ELSE [map |-> m,
             result |-> Err([kind |-> "InsertedIntoFilledBoardPositionWithNoReplace",
                             point |-> point, piece |-> m[key]])]

\* one item of BoardHashMap::to_iter: (from_bitmask(1 << coord).expect(..), piece)
IterItem(m, key) == <<from_bitmask(Shl({0}, key)).val, m[key]>>

\* the orders in which HashMap::iter may visit the keys: any of them
RECURSIVE IterOrders(_)
IterOrders(keys) ==
  IF keys = {} THEN {<<>>}
  ELSE UNION {{<<k>> \o rest : rest \in IterOrders(keys \ {k})} : k \in keys}

(***************************************************************************)
(* BoardBitmasks (board_bitmask.rs)                                        *)
(***************************************************************************)
\* the body of the for_each closure of from_board_hash_map: one arm per piece
BuildArm(output, coord, piece) ==
  LET bitmask == to_bitmask(coord)
  IN CASE piece = "WhitePawn" ->
            [output EXCEPT !.white_pawns = @ \cup bitmask,
                           !.white_pieces = @ \cup bitmask,
                           !.all_pieces = @ \cup bitmask]
       [] piece = "WhiteKnight" ->
            [output EXCEPT !.white_knights = @ \cup bitmask,
                           !.white_pieces = @ \cup bitmask,
                           !.all_pieces = @ \cup bitmask]
       [] piece = "WhiteBishop" ->
            [output EXCEPT !.white_bishops = @ \cup bitmask,
                           !.white_pieces = @ \cup bitmask,
                           !.all_pieces = @ \cup bitmask]
       [] piece = "WhiteRook" ->
            [output EXCEPT !.white_rooks = @ \cup bitmask,
                           !.white_pieces = @ \cup bitmask,
                           !.all_pieces = @ \cup bitmask]
       [] piece = "WhiteQueen" ->
            [output EXCEPT !.white_queens = @ \cup bitmask,
                           !.white_pieces = @ \cup bitmask,
                           !.all_pieces = @ \cup bitmask]
       [] piece = "WhiteKing" ->
            [output EXCEPT !.white_kings = @ \cup bitmask,
                           !.white_pieces = @ \cup bitmask,
                           !.all_pieces = @ \cup bitmask]
       [] piece = "BlackPawn" ->
            [output EXCEPT !.black_pawns = @ \cup bitmask,
                           !.black_pieces = @ \cup bitmask,
                           !.all_pieces = @ \cup bitmask]
       [] piece = "BlackKnight" ->
            [output EXCEPT !.black_knights = @ \cup bitmask,
                           !.black_pieces = @ \cup bitmask,
                           !.all_pieces = @ \cup bitmask]
       [] piece = "BlackBishop" ->
            [output EXCEPT !.black_bishops = @ \cup bitmask,
                           !.black_pieces = @ \cup bitmask,
                           !.all_pieces = @ \cup bitmask]
       [] piece = "BlackRook" ->
            [output EXCEPT !.black_rooks = @ \cup bitmask,
                           !.black_pieces = @ \cup bitmask,
                           !.all_pieces = @ \cup bitmask]
       [] piece = "BlackQueen" ->
            [output EXCEPT !.black_queens = @ \cup bitmask,
                           !.black_pieces = @ \cup bitmask,
                           !.all_pieces = @ \cup bitmask]
       [] piece = "BlackKing" ->
            [output EXCEPT !.black_kings = @ \cup bitmask,
                           !.black_pieces = @ \cup bitmask,
                           !.all_pieces = @ \cup bitmask]

RECURSIVE BuildFold(_, _, _)
BuildFold(output, m, order) ==
  IF order = <<>> THEN output
  ELSE LET item == IterItem(m, Head(order))
       IN BuildFold(BuildArm(output, item[1], item[2]), m, Tail(order))

\* a plausible slip: `all_pieces = bitmask` for `all_pieces |= bitmask`, which
\* leaves only the entry visited last
from_board_hash_map_slip(m, order) ==
  LET out == BuildFold(NewBoard, m, order)
  IN IF order = <<>> THEN out
     ELSE [out EXCEPT !.all_pieces = to_bitmask(IterItem(m, order[Len(order)])[1])]

\* BoardBitmasks::from_board_hash_map, the map's entries visited in `order`
from_board_hash_map(m, order) == BuildFold(NewBoard, m, order)

PieceField(piece) ==
  CASE piece = "WhitePawn"   -> "white_pawns"
    [] piece = "WhiteKnight" -> "white_knights"
    [] piece = "WhiteBishop" -> "white_bishops"
    [] piece = "WhiteRook"   -> "white_rooks"
    [] piece = "WhiteQueen"  -> "white_queens"
    [] piece = "WhiteKing"   -> "white_kings"
    [] piece = "BlackPawn"   -> "black_pawns"
    [] piece = "BlackKnight" -> "black_knights"
    [] piece = "BlackBishop" -> "black_bishops"
    [] piece = "BlackRook"   -> "black_rooks"
    [] piece = "BlackQueen"  -> "black_queens"
    [] piece = "BlackKing"   -> "black_kings"

\* BoardBitmasks::piece_enum_to_bitmask
piece_enum_to_bitmask(b, piece_type) == b[PieceField(piece_type)]

WhiteOrder == <<"WhitePawn", "WhiteKnight", "WhiteBishop",
                "WhiteRook", "WhiteQueen", "WhiteKing">>

BlackOrder == <<"BlackPawn", "BlackKnight", "BlackBishop",
                "BlackRook", "BlackQueen", "BlackKing">>

\* the inner match of get_piece_type_for_capture: the first arm, in source
\* order, whose guard `to_bitmask() & mask > 0` holds; the `_` arm is the error
FirstArm(b, capture_position, order) ==
  LET hits == {i \in 1 .. Len(order) :
                 to_bitmask(capture_position) \cap piece_enum_to_bitmask(b, order[i]) /= {}}
  IN IF hits = {}
       THEN Err([kind |-> "CapturePieceNotFound", point |-> capture_position])
       ELSE Ok(order[CHOOSE i \in hits : \A j \in hits : i <= j])

\* a plausible slip: the side test reads all_pieces, so every piece is looked
\* up among the white masks
get_piece_type_for_capture_slip(b, capture_position) ==
  IF to_bitmask(capture_position) \cap b.all_pieces = {}
    THEN Err([kind |-> "CapturePieceNotFound", point |-> capture_position])
    ELSE FirstArm(b, capture_position, WhiteOrder)

\* BoardBitmasks::get_piece_type_for_capture
get_piece_type_for_capture(b, capture_position) ==
  IF to_bitmask(capture_position) \cap b.all_pieces = {}
    THEN Err([kind |-> "CapturePieceNotFound", point |-> capture_position])
    ELSE IF to_bitmask(capture_position) \cap b.white_pieces /= {}
      THEN FirstArm(b, capture_position, WhiteOrder)
      ELSE FirstArm(b, capture_position, BlackOrder)

NoCall == [op |-> "none"]

NoRet == [kind |-> "none"]

(***************************************************************************)
(* SpecShift: shift_move as a pure function of (mask, direction)           *)
(***************************************************************************)
MaxShiftBits == 2

RECURSIVE MasksUpTo(_)
MasksUpTo(n) ==
  IF n = 0 THEN {{}}
  ELSE LET P == MasksUpTo(n - 1) IN P \cup {p \cup {s} : p \in P, s \in Bits}

ShiftInit ==
  /\ pc = "shift_input"
  /\ map = EmptyMap
  /\ board = NewBoard
  /\ \E m \in MasksUpTo(MaxShiftBits), d \in ChessDirection :
       call = [op |-> "shift_move", mask |-> m, direction |-> d]
  /\ ret = NoRet

CallShiftMove ==
  /\ pc = "shift_input"
  /\ pc' = "shift_done"
  /\ ret' = [kind |-> "mask", mask |-> shift_move(call.mask, call.direction)]
  /\ UNCHANGED <<map, board, call>>

ShiftNext == CallShiftMove

SpecShift == ShiftInit /\ [][ShiftNext]_vars

(***************************************************************************)
(* Board geometry used to state the claims: file 1 = A .. 8 = H,           *)
(* rank 1 .. 8, counted independently of the masks above                   *)
(***************************************************************************)
FileNo(sq) == 8 - (sq % 8)

RankNo(sq) == (sq \div 8) + 1

SquareAt(f, r) == (r - 1) * 8 + (8 - f)

OnBoard(f, r) == f \in 1 .. 8 /\ r \in 1 .. 8

\* the (file, rank) offset of each direction: Right is toward H, Up toward rank 8
Offset(d) ==
  CASE d = "Up"           -> <<0, 1>>
    [] d = "UpRight"      -> <<1, 1>>
    [] d = "Right"        -> <<1, 0>>
    [] d = "DownRight"    -> <<1, -1>>
    [] d = "Down"         -> <<0, -1>>
    [] d = "DownLeft"     -> <<-1, -1>>
    [] d = "Left"         -> <<-1, 0>>
    [] d = "UpLeft"       -> <<-1, 1>>
    [] d = "KnightOne"    -> <<1, 2>>
    [] d = "KnightTwo"    -> <<2, 1>>
    [] d = "KnightFour"   -> <<2, -1>>
    [] d = "KnightFive"   -> <<1, -2>>
    [] d = "KnightSeven"  -> <<-1, -2>>
    [] d = "KnightEight"  -> <<-2, -1>>
    [] d = "KnightTen"    -> <<-2, 1>>
    [] d = "KnightEleven" -> <<-1, 2>>

\* the squares n steps along d from sq that are on the board (none or one)
Displaced(sq, d, n) ==
  LET f == FileNo(sq) + n * Offset(d)[1]
      r == RankNo(sq) + n * Offset(d)[2]
  IN IF OnBoard(f, r) THEN {SquareAt(f, r)} ELSE {}

(***************************************************************************)
(* C1: shift_move of a one-square mask is the one-square mask of the       *)
(* square displaced by the direction's (file, rank) offset when that       *)
(* square is on the board and 0 otherwise; shift_move of any mask is the   *)
(* union of the results for its bits, so no bit wraps across a file edge   *)
(* or leaves the board.                                                    *)
(***************************************************************************)
C1_ShiftIsDisplacement ==
  pc = "shift_done" =>
    /\ ret.mask = UNION {Displaced(s, call.direction, 1) : s \in call.mask}
    /\ ret.mask = UNION {shift_move({s}, call.direction) : s \in call.mask}
    /\ ret.mask \subseteq Bits

\* KnightTwo (one up, two right) from g4 and c4: g4 would leave the board by the
\* H file and is dropped, not wrapped; c4 lands on e5
C1_Witness_EdgeDropped ==
  /\ pc = "shift_done"
  /\ call.direction = "KnightTwo"
  /\ call.mask = {SquareAt(7, 4), SquareAt(3, 4)}
  /\ ret.mask = {SquareAt(5, 5)}

(***************************************************************************)
(* Operations shared by the board specifications                           *)
(***************************************************************************)
Coord(f, r) == [x |-> XNames[f], y |-> YNames[r]]

\* BoardHashMap::insert on the map under construction
Insert(point, piece, replace) ==
  /\ pc = "map"
  /\ LET r == insert(map, point, piece, replace)
     IN /\ map' = r.map
        /\ ret' = r.result
  /\ call' = [op |-> "insert", point |-> point, piece |-> piece, replace |-> replace]
  /\ UNCHANGED <<pc, board>>

\* BoardBitmasks::from_board_hash_map(&map); HashMap::iter fixes no order
FromBoardHashMap ==
  /\ pc = "map"
  /\ \E order \in IterOrders(DOMAIN map) :
       board' = from_board_hash_map(map, order)
  /\ pc' = "board"
  /\ call' = [op |-> "from_board_hash_map"]
  /\ ret' = NoRet
  /\ UNCHANGED map

\* board.get_piece_type_for_capture(capture_position)
CallGetPieceTypeForCapture(capture_position) ==
  /\ pc = "board"
  /\ pc' = "done"
  /\ call' = [op |-> "get_piece_type_for_capture", point |-> capture_position]
  /\ ret' = get_piece_type_for_capture(board, capture_position)
  /\ UNCHANGED <<map, board>>

(***************************************************************************)
(* Board invariants, stated on a BoardBitmasks value                       *)
(***************************************************************************)
WhiteUnion(b) == UNION {piece_enum_to_bitmask(b, p) : p \in WhitePieceEnums}

BlackUnion(b) == UNION {piece_enum_to_bitmask(b, p) : p \in BlackPieceEnums}

AggregatesEqualUnions(b) ==
  /\ b.white_pieces = WhiteUnion(b)
  /\ b.black_pieces = BlackUnion(b)
  /\ b.all_pieces = b.white_pieces \cup b.black_pieces

PairwiseDisjoint(b) ==
  \A p, q \in PieceEnum :
    p /= q => piece_enum_to_bitmask(b, p) \cap piece_enum_to_bitmask(b, q) = {}

\* the piece classes whose bitboard contains the square
ClassesAt(b, coord) ==
  {p \in PieceEnum : to_bitmask(coord) \cap piece_enum_to_bitmask(b, p) /= {}}

(***************************************************************************)
(* SpecBuild: the position builder, BoardHashMap inserts followed by       *)
(* from_board_hash_map                                                     *)
(***************************************************************************)
NumBuildSquares == 2

BuildPool == <<Coord(1, 1), Coord(8, 8), Coord(5, 4), Coord(4, 5),
               Coord(8, 1), Coord(1, 8), Coord(2, 7), Coord(7, 2)>>

BuildSquares == {BuildPool[i] : i \in 1 .. NumBuildSquares}

BuildInit ==
  /\ pc = "map"
  /\ map = EmptyMap
  /\ board = NewBoard
  /\ call = NoCall
  /\ ret = NoRet

BuildNext ==
  \/ \E point \in BuildSquares, piece \in PieceEnum, replace \in BOOLEAN :
       Insert(point, piece, replace)
  \/ FromBoardHashMap

SpecBuild == BuildInit /\ [][BuildNext]_vars

(***************************************************************************)
(* C2: after any sequence of BoardHashMap::insert calls,                   *)
(* from_board_hash_map yields twelve pairwise disjoint per-piece masks,    *)
(* white_pieces and black_pieces equal to the OR of their six masks,       *)
(* all_pieces = white_pieces | black_pieces, white_pieces & black_pieces   *)
(* = 0, and the same board for every order in which the map's entries are  *)
(* iterated.                                                               *)
(***************************************************************************)
C2_BuiltBoardInvariants ==
  pc = "board" =>
    /\ PairwiseDisjoint(board)
    /\ AggregatesEqualUnions(board)
    /\ board.white_pieces \cap board.black_pieces = {}
    /\ \A p \in PieceEnum :
         piece_enum_to_bitmask(board, p) = {k \in DOMAIN map : map[k] = p}
    /\ \A order \in IterOrders(DOMAIN map) :
         from_board_hash_map(map, order) = board

\* a board built from two entries of different colours, one of them put there
\* by a replacing insert
C2_Witness_TwoColours ==
  /\ pc = "board"
  /\ Cardinality(DOMAIN map) = 2
  /\ board.white_knights = to_bitmask(BuildPool[1])
  /\ board.black_pawns = to_bitmask(BuildPool[2])
  /\ board.all_pieces = to_bitmask(BuildPool[1]) \cup to_bitmask(BuildPool[2])

(***************************************************************************)
(* SpecPieceAt: get_piece_type_for_capture on any BoardBitmasks value.     *)
(* The fields are public and the tests assign them one by one, so a board  *)
(* need not satisfy any invariant.  The lookup of a square reads only that *)
(* square's bit of each field: every field either holds the probed square  *)
(* or is empty.                                                            *)
(***************************************************************************)
NumProbeSquares == 2

ProbePool == <<Coord(4, 5), Coord(8, 1), Coord(1, 8), Coord(5, 4)>>

ProbeSquares == {ProbePool[i] : i \in 1 .. NumProbeSquares}

BoardFields == {"all_pieces", "white_pieces", "black_pieces"}
                 \cup {PieceField(p) : p \in PieceEnum}

PieceAtInit ==
  /\ pc = "board"
  /\ map = EmptyMap
  /\ \E s \in ProbeSquares, on \in SUBSET BoardFields :
       board = [f \in BoardFields |-> IF f \in on THEN to_bitmask(s) ELSE {}]
  /\ call = NoCall
  /\ ret = NoRet

PieceAtNext ==
  \E capture_position \in ProbeSquares : CallGetPieceTypeForCapture(capture_position)

SpecPieceAt == PieceAtInit /\ [][PieceAtNext]_vars

NotFound(coord) == Err([kind |-> "CapturePieceNotFound", point |-> coord])

\* C3 as stated: get_piece_type_for_capture returns CapturePieceNotFound when
\* square & all_pieces == 0; on every position whose aggregates equal the
\* unions of the per-piece masks it otherwise returns Ok(p) for the unique
\* piece class p whose bitboard contains the square; on any board an Ok(p)
\* implies that p's bitboard intersects the square's mask.
C3_Original_UniqueClass ==
  (pc = "done" /\ call.op = "get_piece_type_for_capture") =>
    /\ to_bitmask(call.point) \cap board.all_pieces = {} => ret = NotFound(call.point)
    /\ (AggregatesEqualUnions(board) /\ to_bitmask(call.point) \cap board.all_pieces /= {})
         => (ret.ok /\ ClassesAt(board, call.point) = {ret.val})
    /\ ret.ok => ret.val \in ClassesAt(board, call.point)

\* the rank of a piece class in the order the lookup tests them: white before
\* black, then pawn, knight, bishop, rook, queen, king
LookupRank(p) ==
  IF p \in WhitePieceEnums
    THEN CHOOSE i \in 1 .. 6 : WhiteOrder[i] = p
    ELSE 6 + (CHOOSE i \in 1 .. 6 : BlackOrder[i] = p)

\* C3 as amended: CapturePieceNotFound when square & all_pieces == 0; on a
\* position whose aggregates equal the unions it otherwise returns Ok(p) for
\* a class p whose bitboard contains the square, the first such class in the
\* lookup order, which is the unique one when the twelve masks are pairwise
\* disjoint; on any board Ok(p) implies that p's bitboard contains the square.
C3_PieceAtLookup ==
  (pc = "done" /\ call.op = "get_piece_type_for_capture") =>
    /\ to_bitmask(call.point) \cap board.all_pieces = {} => ret = NotFound(call.point)
    /\ (AggregatesEqualUnions(board) /\ to_bitmask(call.point) \cap board.all_pieces /= {})
         => /\ ret.ok
            /\ ret.val \in ClassesAt(board, call.point)
            /\ \A q \in ClassesAt(board, call.point) : LookupRank(ret.val) <= LookupRank(q)
            /\ PairwiseDisjoint(board) => ClassesAt(board, call.point) = {ret.val}
    /\ ret.ok => ret.val \in ClassesAt(board, call.point)

\* a black rook looked up on a board that satisfies the invariants
C3_Witness_BlackRookFound ==
  /\ pc = "done"
  /\ call.op = "get_piece_type_for_capture"
  /\ AggregatesEqualUnions(board)
  /\ PairwiseDisjoint(board)
  /\ board.black_rooks = to_bitmask(call.point)
  /\ ret = Ok("BlackRook")

(***************************************************************************)
(* StandardMove (standard_move.rs) and unpack_moves (temp_move.rs)         *)
(***************************************************************************)
None == [some |-> FALSE]

Some(v) == [some |-> TRUE, val |-> v]

StandardMove(start_position, end_position, piece, en_passant_target, promotion, takes) ==
  [start_position |-> start_position, end_position |-> end_position,
   piece |-> piece, en_passant_target |-> en_passant_target,
   promotion |-> promotion, takes |-> takes]

TempMove(moves, captures) == [moves |-> moves, captures |-> captures]

\* the closure both slider generators pass to unpack_moves:
\* (0..index).fold(bitmask, |current, _| current.shift_move(reverse_direction))
RECURSIVE undo_moves(_, _, _)
undo_moves(bitmask, index, reverse_direction) ==
  IF index = 0 THEN bitmask
  ELSE undo_moves(shift_move(bitmask, reverse_direction), index - 1, reverse_direction)

\* the two loops of unpack_moves: index is the zero-based position of the frame
\* in packed_moves, move_copy what is left of its moves
RECURSIVE UnpackLoop(_, _, _, _, _, _, _)
UnpackLoop(packed_moves, index, move_copy, output, reverse_direction, piece_type, game_board) ==
  IF index >= Len(packed_moves) THEN Ok(output)
  ELSE IF move_copy = {}
    THEN UnpackLoop(packed_moves, index + 1,
                    IF index + 2 <= Len(packed_moves)
                      THEN packed_moves[index + 2].moves ELSE {},
                    output, reverse_direction, piece_type, game_board)
  ELSE
    LET next_move_bitmask == {trailing_zeros(move_copy)}
        next_move_coord == from_bitmask(next_move_bitmask)
        starting_pos_coord ==
          from_bitmask(undo_moves(next_move_bitmask, index, reverse_direction))
        is_capture == next_move_bitmask \cap packed_moves[index + 1].captures /= {}
        captured == get_piece_type_for_capture(game_board, next_move_coord.val)
    IN IF ~next_move_coord.ok THEN next_move_coord
       ELSE IF ~starting_pos_coord.ok THEN starting_pos_coord
       ELSE IF is_capture /\ ~captured.ok THEN captured
       ELSE UnpackLoop(packed_moves, index, move_copy \ next_move_bitmask,
              Append(output,
                StandardMove(starting_pos_coord.val, next_move_coord.val, piece_type,
                  None, None,
                  IF is_capture
                    THEN Some(<<next_move_coord.val, captured.val>>) ELSE None)),
              reverse_direction, piece_type, game_board)

unpack_moves(packed_moves, reverse_direction, piece_type, game_board) ==
  UnpackLoop(packed_moves, 0, packed_moves[1].moves, <<>>,
             reverse_direction, piece_type, game_board)

(***************************************************************************)
(* The slider generators (diagonal_moves.rs, straight_moves.rs)            *)
(***************************************************************************)
CardinalDirections == {"Up", "Right", "Down", "Left"}

DiagonalDirections == {"UpRight", "DownRight", "DownLeft", "UpLeft"}

\* the reverse_direction match of both generators
ReverseDirection(direction) ==
  CASE direction = "Right" -> "Left"
    [] direction = "Down" -> "Up"
    [] direction = "Left" -> "Right"
    [] direction = "Up" -> "Down"
    [] direction = "UpRight" -> "DownLeft"
    [] direction = "DownRight" -> "UpLeft"
    [] direction = "DownLeft" -> "UpRight"
    [] direction = "UpLeft" -> "DownRight"

\* loop { if previous_move.moves & previous_move.captures == 0 { break; } ... }
RECURSIVE PackLoop(_, _, _, _)
PackLoop(packed_moves, direction, own_pieces, opponent_pieces) ==
  LET previous_move == packed_moves[Len(packed_moves)]
  IN IF previous_move.moves \cap previous_move.captures = {}
       THEN packed_moves
       ELSE LET valid_moves == shift_move(previous_move.moves, direction) \ own_pieces
                captures == valid_moves \cap opponent_pieces
            IN PackLoop(Append(packed_moves, TempMove(valid_moves, captures)),
                        direction, own_pieces, opponent_pieces)

\* the body the two generators share once piece and direction are accepted
SliderMoves(b, white, piece_type, direction) ==
  LET own_pieces == IF white THEN b.white_pieces ELSE b.black_pieces
      opponent_pieces == IF white THEN b.black_pieces ELSE b.white_pieces
      starting_position == piece_enum_to_bitmask(b, piece_type)
      valid_moves == shift_move(starting_position, direction) \ own_pieces
      captures == valid_moves \cap opponent_pieces
      packed_moves == PackLoop(<<TempMove(valid_moves, captures)>>, direction,
                               own_pieces, opponent_pieces)
  IN unpack_moves(packed_moves, ReverseDirection(direction), piece_type, b)

InvalidPieceType(function, piece_type) ==
  Err([kind |-> "InvalidPieceType", function |-> function, got |-> piece_type])

InvalidDirection(function, direction) ==
  Err([kind |-> "InvalidDirection", function |-> function, got |-> direction])

calculate_cardinal_moves_for_direction(b, piece_type, cardinal_direction) ==
  IF piece_type \notin {"WhiteRook", "WhiteQueen", "BlackRook", "BlackQueen"}
    THEN InvalidPieceType("calculate_cardinal_moves_for_direction", piece_type)
  ELSE IF cardinal_direction \notin CardinalDirections
    THEN InvalidDirection("calculate_cardinal_moves_for_direction", cardinal_direction)
  ELSE SliderMoves(b, piece_type \in {"WhiteRook", "WhiteQueen"}, piece_type,
                   cardinal_direction)
\* a plausible slip: the direction validated before the piece
calculate_diagonal_moves_for_direction_slip(b, piece_type, diagonal_direction) ==
  IF diagonal_direction \notin DiagonalDirections
    THEN InvalidDirection("calculate_diagonal_moves_for_direction", diagonal_direction)
  ELSE IF piece_type \notin {"WhiteBishop", "WhiteQueen", "BlackBishop", "BlackQueen"}
    THEN InvalidPieceType("calculate_diagonal_moves_for_direction", piece_type)
  ELSE SliderMoves(b, piece_type \in {"WhiteBishop", "WhiteQueen"}, piece_type,
                   diagonal_direction)


calculate_diagonal_moves_for_direction(b, piece_type, diagonal_direction) ==
  IF piece_type \notin {"WhiteBishop", "WhiteQueen", "BlackBishop", "BlackQueen"}
    THEN InvalidPieceType("calculate_diagonal_moves_for_direction", piece_type)
  ELSE IF diagonal_direction \notin DiagonalDirections
    THEN InvalidDirection("calculate_diagonal_moves_for_direction", diagonal_direction)
  ELSE SliderMoves(b, piece_type \in {"WhiteBishop", "WhiteQueen"}, piece_type,
                   diagonal_direction)

(***************************************************************************)
(* SpecSlider: positions set up by inserts and built into bitboards, then  *)
(* one call of a slider generator                                          *)
(***************************************************************************)
\* the calling code sets up a position of at most max pieces: inserts without
\* the replace flag whose results it drops (a refused insert leaves the map as
\* it was)
Place(placements, max) ==
  /\ pc = "map"
  /\ Cardinality(DOMAIN map) < max
  /\ \E pl \in placements : map' = insert(map, pl[1], pl[2], FALSE).map
  /\ UNCHANGED <<pc, board, call, ret>>

CallCardinalMoves(piece_type, cardinal_direction) ==
  /\ pc = "board"
  /\ pc' = "done"
  /\ call' = [op |-> "calculate_cardinal_moves_for_direction",
              piece |-> piece_type, direction |-> cardinal_direction]
  /\ ret' = calculate_cardinal_moves_for_direction(board, piece_type, cardinal_direction)
  /\ UNCHANGED <<map, board>>

CallDiagonalMoves(piece_type, diagonal_direction) ==
  /\ pc = "board"
  /\ pc' = "done"
  /\ call' = [op |-> "calculate_diagonal_moves_for_direction",
              piece |-> piece_type, direction |-> diagonal_direction]
  /\ ret' = calculate_diagonal_moves_for_direction(board, piece_type, diagonal_direction)
  /\ UNCHANGED <<map, board>>

MaxSliderPieces == 3

SliderPlacements ==
  {<<Coord(1, 1), "WhiteRook">>, <<Coord(1, 1), "WhiteQueen">>,
   <<Coord(3, 1), "WhiteRook">>, <<Coord(3, 3), "WhiteBishop">>,
   <<Coord(1, 3), "WhitePawn">>, <<Coord(1, 2), "BlackPawn">>,
   <<Coord(1, 4), "BlackPawn">>, <<Coord(2, 2), "BlackPawn">>,
   <<Coord(1, 8), "BlackRook">>, <<Coord(4, 4), "BlackQueen">>}

SliderCallPieces == {"WhiteRook", "WhiteQueen", "WhiteBishop", "BlackRook", "BlackQueen"}

SliderCallDirections == {"Up", "Right", "Down", "UpRight", "DownLeft", "KnightOne"}

SliderNext ==
  \/ Place(SliderPlacements, MaxSliderPieces)
  \/ FromBoardHashMap
  \/ \E piece_type \in SliderCallPieces, direction \in SliderCallDirections :
       CallCardinalMoves(piece_type, direction)
  \/ \E piece_type \in SliderCallPieces, direction \in SliderCallDirections :
       CallDiagonalMoves(piece_type, direction)

SpecSlider == BuildInit /\ [][SliderNext]_vars

\* a slider generator returned its moves
SliderReturned ==
  /\ pc = "done"
  /\ call.op \in {"calculate_cardinal_moves_for_direction",
                  "calculate_diagonal_moves_for_direction"}
  /\ ret.ok

\* the square of a coordinate, by file and rank
SquareOf(coord) == SquareAt(XIndex(coord.x), YIndex(coord.y))

\* the squares strictly between o and the square k steps along d are empty
ClearPath(b, o, d, k) ==
  \A j \in 1 .. (k - 1) : Displaced(o, d, j) \cap b.all_pieces = {}

\* C6: in both slider generators a capture terminates the ray: every emitted
\* destination is reached from a square of the moving piece along d over
\* empty squares only, so no destination lies beyond an enemy or own piece.
C6_Original_CaptureEndsRay ==
  SliderReturned =>
    \A i \in DOMAIN ret.val :
      \E o \in piece_enum_to_bitmask(board, call.piece), k \in 1 .. 7 :
        /\ Displaced(o, call.direction, k) = {SquareOf(ret.val[i].end_position)}
        /\ ClearPath(board, o, call.direction, k)

\* C7: for every piece of the requested type on o and every square along d
\* from o up to the first occupied square or the edge (that square included
\* exactly when it holds an enemy piece), the generator emits a move to it.
C7_Original_EveryRaySquare ==
  SliderReturned =>
    \A o \in piece_enum_to_bitmask(board, call.piece), k \in 1 .. 7 :
      LET own == IF call.piece \in WhitePieceEnums
                   THEN board.white_pieces ELSE board.black_pieces
          target == Displaced(o, call.direction, k)
      IN (target /= {} /\ target \cap own = {} /\ ClearPath(board, o, call.direction, k))
           => \E i \in DOMAIN ret.val : {SquareOf(ret.val[i].end_position)} = target

\* C8: every move emitted by the slider generators starts on the square of a
\* piece of the requested type, its end_position lies one or more steps along
\* d from its start_position, and start_position /= end_position.
C8_Original_StartIsOrigin ==
  SliderReturned =>
    \A i \in DOMAIN ret.val :
      LET m == ret.val[i]
      IN /\ SquareOf(m.start_position) \in piece_enum_to_bitmask(board, call.piece)
         /\ \E k \in 1 .. 7 :
              Displaced(SquareOf(m.start_position), call.direction, k)
                = {SquareOf(m.end_position)}
         /\ m.start_position /= m.end_position

(***************************************************************************)
(* The white pawn generators (pawn_moves.rs)                               *)
(***************************************************************************)
\* the ? operator: an Err returns from the function, an Ok value goes on
Try(result, Continue(_)) == IF result.ok THEN Continue(result.val) ELSE result

\* the order in which `1 << mask.trailing_zeros()` takes the bits of a mask
RECURSIVE BitsAscending(_)
BitsAscending(m) ==
  IF m = {} THEN <<>>
  ELSE <<trailing_zeros(m)>> \o BitsAscending(m \ {trailing_zeros(m)})

\* output.extend(..) over a sequence of Results, returning at the first Err
RECURSIVE Extend(_, _)
Extend(output, results) ==
  IF results = <<>> THEN Ok(output)
  ELSE IF ~results[1].ok THEN results[1]
  ELSE Extend(output \o results[1].val, Tail(results))

\* while mask != 0 { let next = 1 << mask.trailing_zeros(); ...; mask &= !next }
ForEachBit(mask, Body(_)) ==
  LET order == BitsAscending(mask)
  IN Extend(<<>>, [i \in 1 .. Len(order) |-> Body({order[i]})])
\* a plausible slip: the two positions passed to StandardMove::new in the
\* wrong order
create_simple_white_pawn_move_slip(starting_position, ending_position) ==
  Try(from_bitmask(starting_position), LAMBDA s :
    Try(from_bitmask(ending_position), LAMBDA e :
      Ok(StandardMove(e, s, "WhitePawn", None, None, None))))


create_simple_white_pawn_move(starting_position, ending_position) ==
  Try(from_bitmask(starting_position), LAMBDA s :
    Try(from_bitmask(ending_position), LAMBDA e :
      Ok(StandardMove(s, e, "WhitePawn", None, None, None))))

create_double_white_pawn_move(starting_position, ending_position) ==
  Try(from_bitmask(starting_position), LAMBDA s :
    Try(from_bitmask(ending_position), LAMBDA e :
      Try(from_bitmask(shift_move(ending_position, "Down")), LAMBDA t :
        Ok(StandardMove(s, e, "WhitePawn", Some(t), None, None)))))
\* a plausible slip: rank 7 left among the rows that step without promoting
calculate_white_pawn_moves_single_step_slip(b, occupied) ==
  LET ROWS_TWO_TO_SEVEN == BitNot(YCoordinate["One"] \cup YCoordinate["Eight"])
      valid_pawns == b.white_pawns \cap ROWS_TWO_TO_SEVEN
      valid_moves == shift_move(valid_pawns, "Up") \ occupied
  IN ForEachBit(valid_moves, LAMBDA next_move :
       Try(create_simple_white_pawn_move(shift_move(next_move, "Down"), next_move),
           LAMBDA m : Ok(<<m>>)))


calculate_white_pawn_moves_single_step(b, occupied) ==
  LET ROWS_TWO_TO_SIX ==
        BitNot(YCoordinate["One"] \cup YCoordinate["Seven"] \cup YCoordinate["Eight"])
      valid_pawns == b.white_pawns \cap ROWS_TWO_TO_SIX
      valid_moves == shift_move(valid_pawns, "Up") \ occupied
  IN ForEachBit(valid_moves, LAMBDA next_move :
       Try(create_simple_white_pawn_move(shift_move(next_move, "Down"), next_move),
           LAMBDA m : Ok(<<m>>)))
\* a plausible slip: the first step not tested against occupied
calculate_white_pawn_moves_double_step_slip(b, occupied) ==
  LET ROW_TWO == YCoordinate["Two"]
      valid_pawns == b.white_pawns \cap ROW_TWO
      valid_first_step == shift_move(valid_pawns, "Up")
      valid_moves == shift_move(valid_first_step, "Up") \ occupied
  IN ForEachBit(valid_moves, LAMBDA next_move :
       Try(create_double_white_pawn_move(
             shift_move(shift_move(next_move, "Down"), "Down"), next_move),
           LAMBDA m : Ok(<<m>>)))


calculate_white_pawn_moves_double_step(b, occupied) ==
  LET ROW_TWO == YCoordinate["Two"]
      valid_pawns == b.white_pawns \cap ROW_TWO
      valid_first_step == shift_move(valid_pawns, "Up") \ occupied
      valid_moves == shift_move(valid_first_step, "Up") \ occupied
  IN ForEachBit(valid_moves, LAMBDA next_move :
       Try(create_double_white_pawn_move(
             shift_move(shift_move(next_move, "Down"), "Down"), next_move),
           LAMBDA m : Ok(<<m>>)))

\* the loop body capture_left and capture_right share: back is the direction
\* from the captured square to the pawn
PawnCapture(b, next_move, back) ==
  Try(from_bitmask(next_move), LAMBDA coord_next_move :
    Try(from_bitmask(shift_move(next_move, back)), LAMBDA start_position :
      Try(get_piece_type_for_capture(b, coord_next_move), LAMBDA captured :
        Ok(<<StandardMove(start_position, coord_next_move, "WhitePawn", None, None,
                          Some(<<coord_next_move, captured>>))>>))))
\* a plausible slip: the capture squares tested against all_pieces
calculate_white_pawn_moves_capture_left_slip(b) ==
  LET VALID_SQUARES_NOT_IN_COLUMN_A ==
        BitNot(YCoordinate["One"] \cup YCoordinate["Seven"] \cup YCoordinate["Eight"]
                 \cup XCoordinate["A"])
      valid_pawns == b.white_pawns \cap VALID_SQUARES_NOT_IN_COLUMN_A
      valid_captures == shift_move(valid_pawns, "UpLeft") \cap b.all_pieces
  IN ForEachBit(valid_captures, LAMBDA next_move : PawnCapture(b, next_move, "DownRight"))


calculate_white_pawn_moves_capture_left(b) ==
  LET VALID_SQUARES_NOT_IN_COLUMN_A ==
        BitNot(YCoordinate["One"] \cup YCoordinate["Seven"] \cup YCoordinate["Eight"]
                 \cup XCoordinate["A"])
      valid_pawns == b.white_pawns \cap VALID_SQUARES_NOT_IN_COLUMN_A
      valid_captures == shift_move(valid_pawns, "UpLeft") \cap b.black_pieces
  IN ForEachBit(valid_captures, LAMBDA next_move : PawnCapture(b, next_move, "DownRight"))

calculate_white_pawn_moves_capture_right(b) ==
  LET VALID_SQUARES_NOT_IN_COLUMN_H ==
        BitNot(YCoordinate["One"] \cup YCoordinate["Seven"] \cup YCoordinate["Eight"]
                 \cup XCoordinate["H"])
      valid_pawns == b.white_pawns \cap VALID_SQUARES_NOT_IN_COLUMN_H
      valid_captures == shift_move(valid_pawns, "UpRight") \cap b.black_pieces
  IN ForEachBit(valid_captures, LAMBDA next_move : PawnCapture(b, next_move, "DownLeft"))

calculate_white_pawn_moves_en_passant(b, en_passant_target) ==
  IF ~en_passant_target.some THEN Ok(<<>>)
  ELSE
    LET ROW_SIX == YCoordinate["Six"]
        target_mask == to_bitmask(en_passant_target.val)
        valid_capture_positions ==
          (shift_move(target_mask, "DownLeft") \cup shift_move(target_mask, "DownRight"))
            \cap ROW_SIX
        valid_pawns == b.white_pawns \cap valid_capture_positions
    IN ForEachBit(valid_pawns, LAMBDA starting_position :
         Try(from_bitmask(starting_position), LAMBDA s :
           Try(from_bitmask(target_mask), LAMBDA e :
             Try(from_bitmask(shift_move(target_mask, "Down")), LAMBDA c :
               Ok(<<StandardMove(s, e, "WhitePawn", None, None,
                                 Some(<<c, "BlackPawn">>))>>)))))

PromotionPieces == <<"WhiteKnight", "WhiteBishop", "WhiteRook", "WhiteQueen">>
\* a plausible slip: the queen promotion pushed before the rook promotion
Promotions_slip(start_position, end_position, takes) ==
  [i \in 1 .. 4 |-> StandardMove(start_position, end_position, "WhitePawn", None,
                                 Some(PromotionPieces[IF i = 3 THEN 4 ELSE IF i = 4 THEN 3 ELSE i]),
                                 takes)]

\* for piece in [WhiteKnight, WhiteBishop, WhiteRook, WhiteQueen] { output.push(..) }
Promotions(start_position, end_position, takes) ==
  [i \in 1 .. 4 |-> StandardMove(start_position, end_position, "WhitePawn", None,
                                 Some(PromotionPieces[i]), takes)]

PromotionCapture(b, next_move, back) ==
  Try(from_bitmask(next_move), LAMBDA coord_next_move :
    Try(from_bitmask(shift_move(next_move, back)), LAMBDA coord_starting_pos :
      Try(get_piece_type_for_capture(b, coord_next_move), LAMBDA captured_piece :
        Ok(Promotions(coord_starting_pos, coord_next_move,
                      Some(<<coord_next_move, captured_piece>>))))))

calculate_white_pawn_promotions(b, occupied) ==
  LET ROW_SEVEN == YCoordinate["Seven"]
      ROW_SEVEN_NOT_COLUMN_A == YCoordinate["Seven"] \cap BitNot(XCoordinate["A"])
      ROW_SEVEN_NOT_COLUMN_H == YCoordinate["Seven"] \cap BitNot(XCoordinate["H"])
      valid_pawns == b.white_pawns \cap ROW_SEVEN
      valid_move_forward == shift_move(valid_pawns, "Up") \ occupied
      valid_capture_left ==
        shift_move(valid_pawns \cap ROW_SEVEN_NOT_COLUMN_A, "UpLeft") \cap b.black_pieces
      valid_capture_right ==
        shift_move(valid_pawns \cap ROW_SEVEN_NOT_COLUMN_H, "UpRight") \cap b.black_pieces
  IN IF valid_pawns = {} THEN Ok(<<>>)
     ELSE Extend(<<>>,
       <<ForEachBit(valid_move_forward, LAMBDA next_move :
           Try(from_bitmask(next_move), LAMBDA coord_next_move :
             Try(from_bitmask(shift_move(next_move, "Down")), LAMBDA coord_starting_pos :
               Ok(Promotions(coord_starting_pos, coord_next_move, None))))),
         ForEachBit(valid_capture_left,
           LAMBDA next_move : PromotionCapture(b, next_move, "DownRight")),
         ForEachBit(valid_capture_right,
           LAMBDA next_move : PromotionCapture(b, next_move, "DownLeft"))>>)
\* a plausible slip: the captures collected before the pushes
calculate_white_pawn_moves_slip(b, en_passant) ==
  LET occupied == b.all_pieces
  IN Extend(<<>>,
       <<calculate_white_pawn_moves_capture_left(b),
         calculate_white_pawn_moves_capture_right(b),
         calculate_white_pawn_moves_single_step(b, occupied),
         calculate_white_pawn_moves_double_step(b, occupied),
         calculate_white_pawn_moves_en_passant(b, en_passant),
         calculate_white_pawn_promotions(b, occupied)>>)


calculate_white_pawn_moves(b, en_passant) ==
  LET occupied == b.all_pieces
  IN Extend(<<>>,
       <<calculate_white_pawn_moves_single_step(b, occupied),
         calculate_white_pawn_moves_double_step(b, occupied),
         calculate_white_pawn_moves_capture_left(b),
         calculate_white_pawn_moves_capture_right(b),
         calculate_white_pawn_moves_en_passant(b, en_passant),
         calculate_white_pawn_promotions(b, occupied)>>)

(***************************************************************************)
(* Attack maps (attack_maps.rs) and pin detection (pinned_to_king.rs)      *)
(***************************************************************************)
\* (0..7).fold(self.shift_move(d), |current, _| current | current.shift_move(d))
RECURSIVE RayFold(_, _, _)
RayFold(current, direction, n) ==
  IF n = 0 THEN current
  ELSE RayFold(current \cup shift_move(current, direction), direction, n - 1)

calculate_unconstrained_rook_attack_maps(m) ==
  UNION {RayFold(shift_move(m, d), d, 7) : d \in CardinalDirections}

calculate_unconstrained_bishop_attack_maps(m) ==
  UNION {RayFold(shift_move(m, d), d, 7) : d \in DiagonalDirections}

\* the while loop of check_for_pin
RECURSIVE PinLoop(_, _, _, _, _)
PinLoop(next_position, pinned_piece_candidate, direction, attacking_pieces, defending_pieces) ==
  IF next_position = {} THEN Ok({})
  ELSE IF pinned_piece_candidate = {}
    THEN IF next_position \cap defending_pieces /= {}
           THEN PinLoop(shift_move(next_position, direction), next_position,
                        direction, attacking_pieces, defending_pieces)
         ELSE IF next_position \cap attacking_pieces /= {} THEN Ok({})
         ELSE PinLoop(shift_move(next_position, direction), pinned_piece_candidate,
                      direction, attacking_pieces, defending_pieces)
  ELSE IF next_position \cap attacking_pieces /= {} THEN Ok(pinned_piece_candidate)
  ELSE IF next_position \cap defending_pieces /= {} THEN Ok({})
  ELSE PinLoop(shift_move(next_position, direction), pinned_piece_candidate,
               direction, attacking_pieces, defending_pieces)

\* check_for_pin with the walk started on the king's own square
check_for_pin_slip(king_position, direction, attacking_pieces, defending_pieces) ==
  IF direction \notin KingDirections
    THEN InvalidDirection("check_for_pin", direction)
    ELSE PinLoop(king_position, {}, direction, attacking_pieces, defending_pieces)

check_for_pin(king_position, direction, attacking_pieces, defending_pieces) ==
  IF direction \notin KingDirections
    THEN InvalidDirection("check_for_pin", direction)
    ELSE PinLoop(shift_move(king_position, direction), {}, direction,
                 attacking_pieces, defending_pieces)

\* the loop over the four directions: Ok(piece) => output |= piece, Err(_) => {}
PinsAlong(king_bitmask, directions, attackers, def_piece_bitmask) ==
  UNION {LET pinned_piece_position ==
               check_for_pin(king_bitmask, d, attackers, def_piece_bitmask)
         IN IF pinned_piece_position.ok THEN pinned_piece_position.val ELSE {}
         : d \in directions}

\* get_pieces_cardinally_pinned_to_king with the short-circuit testing the
\* king's bishop reach
get_pieces_cardinally_pinned_to_king_slip(b, white) ==
  LET king_bitmask == IF white THEN b.white_kings ELSE b.black_kings
      cardinal_attackers == IF white THEN b.black_rooks \cup b.black_queens
                            ELSE b.white_rooks \cup b.white_queens
      def_piece_bitmask == IF white THEN b.white_pieces ELSE b.black_pieces
  IN IF calculate_unconstrained_bishop_attack_maps(king_bitmask) \cap cardinal_attackers /= {}
       THEN PinsAlong(king_bitmask, CardinalDirections, cardinal_attackers, def_piece_bitmask)
       ELSE {}

get_pieces_cardinally_pinned_to_king(b, white) ==
  LET king_bitmask == IF white THEN b.white_kings ELSE b.black_kings
      cardinal_attackers == IF white THEN b.black_rooks \cup b.black_queens
                            ELSE b.white_rooks \cup b.white_queens
      def_piece_bitmask == IF white THEN b.white_pieces ELSE b.black_pieces
  IN IF calculate_unconstrained_rook_attack_maps(king_bitmask) \cap cardinal_attackers /= {}
       THEN PinsAlong(king_bitmask, CardinalDirections, cardinal_attackers, def_piece_bitmask)
       ELSE {}

get_pieces_diagonally_pinned_to_king(b, white) ==
  LET king_bitmask == IF white THEN b.white_kings ELSE b.black_kings
      diagonal_attackers == IF white THEN b.black_bishops \cup b.black_queens
                            ELSE b.white_bishops \cup b.white_queens
      def_piece_bitmask == IF white THEN b.white_pieces ELSE b.black_pieces
  IN IF calculate_unconstrained_bishop_attack_maps(king_bitmask) \cap diagonal_attackers /= {}
       THEN PinsAlong(king_bitmask, DiagonalDirections, diagonal_attackers, def_piece_bitmask)
       ELSE {}

get_pieces_pinned_to_king(b, white) ==
  get_pieces_cardinally_pinned_to_king(b, white)
    \cup get_pieces_diagonally_pinned_to_king(b, white)

(***************************************************************************)
(* SpecPawn: positions set up by inserts and built into bitboards, then    *)
(* one call of the white pawn generator or of its en passant part          *)
(***************************************************************************)
CallWhitePawnMoves(en_passant) ==
  /\ pc = "board"
  /\ pc' = "done"
  /\ call' = [op |-> "calculate_white_pawn_moves", en_passant |-> en_passant]
  /\ ret' = calculate_white_pawn_moves(board, en_passant)
  /\ UNCHANGED <<map, board>>

CallEnPassant(en_passant_target) ==
  /\ pc = "board"
  /\ pc' = "done"
  /\ call' = [op |-> "calculate_white_pawn_moves_en_passant",
              en_passant |-> en_passant_target]
  /\ ret' = calculate_white_pawn_moves_en_passant(board, en_passant_target)
  /\ UNCHANGED <<map, board>>

MaxPawnPieces == 4

PawnPlacements ==
  {<<Coord(5, 1), "WhiteKing">>, <<Coord(5, 2), "WhitePawn">>,
   <<Coord(5, 5), "WhitePawn">>, <<Coord(5, 6), "WhitePawn">>,
   <<Coord(5, 7), "WhitePawn">>, <<Coord(8, 2), "WhitePawn">>,
   <<Coord(5, 8), "BlackRook">>, <<Coord(4, 3), "BlackPawn">>,
   <<Coord(4, 5), "BlackPawn">>, <<Coord(5, 3), "BlackPawn">>,
   <<Coord(4, 8), "BlackKnight">>, <<Coord(1, 3), "BlackPawn">>}

EnPassantTargets == {None, Some(Coord(4, 6)), Some(Coord(4, 7))}

PawnNext ==
  \/ Place(PawnPlacements, MaxPawnPieces)
  \/ FromBoardHashMap
  \/ \E en_passant \in EnPassantTargets : CallWhitePawnMoves(en_passant)
  \/ \E en_passant \in EnPassantTargets : CallEnPassant(en_passant)

SpecPawn == BuildInit /\ [][PawnNext]_vars

\* the two pieces are of opposite colours
Opponents(p, q) == (p \in WhitePieceEnums) /= (q \in WhitePieceEnums)

\* C4: on every position built by from_board_hash_map and for every en
\* passant target, each move emitted by the white pawn generators with
\* takes = Some((sq, p)) has piece_at(position, sq) = p, and p is a piece of
\* the opponent.
C4_Original_TakesMatchesBoard ==
  (pc = "done" /\ ret.ok
     /\ call.op \in {"calculate_white_pawn_moves", "calculate_white_pawn_moves_en_passant"})
  => \A i \in DOMAIN ret.val :
       LET m == ret.val[i]
       IN m.takes.some =>
            /\ get_piece_type_for_capture(board, m.takes.val[1]) = Ok(m.takes.val[2])
            /\ Opponents(m.piece, m.takes.val[2])

\* C5: for every en passant target T on rank 6 and every white pawn on rank 5
\* on a file adjacent to T's, calculate_white_pawn_moves_en_passant(Some(T))
\* emits a move from the pawn's square to T, piece WhitePawn, takes = (the
\* square directly below T, BlackPawn); with target None it emits no move.
C5_Original_EnPassantEmitted ==
  (pc = "done" /\ call.op = "calculate_white_pawn_moves_en_passant") =>
    IF ~call.en_passant.some THEN ret = Ok(<<>>)
    ELSE LET T == call.en_passant.val
         IN YIndex(T.y) = 6 =>
              \A sq \in board.white_pawns :
                (RankNo(sq) = 5 /\ FileNo(sq) - XIndex(T.x) \in {-1, 1}) =>
                  /\ ret.ok
                  /\ \E i \in DOMAIN ret.val :
                       /\ SquareOf(ret.val[i].start_position) = sq
                       /\ ret.val[i].end_position = T
                       /\ ret.val[i].piece = "WhitePawn"
                       /\ ret.val[i].takes = Some(<<Coord(XIndex(T.x), 5), "BlackPawn">>)

\* the three squares lie on one line through a in one of the eight directions
OnLineThrough(a, b, c) ==
  \E d \in KingDirections, j, k \in 1 .. 7 :
    Displaced(a, d, j) = {b} /\ (Displaced(a, d, k) = {c} \/ Displaced(a, d, -k) = {c})

\* C10: for every position in which get_pieces_pinned_to_king(white) contains
\* a white pawn, the white pawn generators emit for that pawn only moves
\* whose destination stays on the line king - pawn - pinner.
C10_Original_PinnedPawnStaysOnLine ==
  (pc = "done" /\ call.op = "calculate_white_pawn_moves" /\ ret.ok) =>
    \A sq \in get_pieces_pinned_to_king(board, TRUE) \cap board.white_pawns :
      \A i \in DOMAIN ret.val :
        SquareOf(ret.val[i].start_position) = sq =>
          \A kg \in board.white_kings :
            OnLineThrough(kg, sq, SquareOf(ret.val[i].end_position))

(***************************************************************************)
(* SpecPin: positions set up by inserts and built into bitboards, then one *)
(* call of get_pieces_pinned_to_king                                       *)
(***************************************************************************)
CallGetPiecesPinnedToKing(white) ==
  /\ pc = "board"
  /\ pc' = "done"
  /\ call' = [op |-> "get_pieces_pinned_to_king", white |-> white]
  /\ ret' = [kind |-> "mask", mask |-> get_pieces_pinned_to_king(board, white)]
  /\ UNCHANGED <<map, board>>

MaxPinPieces == 4

PinPlacements ==
  {<<Coord(5, 1), "WhiteKing">>, <<Coord(5, 2), "WhitePawn">>,
   <<Coord(5, 2), "BlackPawn">>, <<Coord(5, 3), "WhiteKnight">>,
   <<Coord(5, 3), "BlackKnight">>, <<Coord(5, 8), "BlackRook">>,
   <<Coord(5, 8), "BlackBishop">>, <<Coord(5, 8), "BlackQueen">>,
   <<Coord(6, 2), "WhitePawn">>, <<Coord(7, 3), "BlackKnight">>,
   <<Coord(8, 4), "BlackBishop">>, <<Coord(8, 4), "BlackRook">>,
   <<Coord(1, 8), "BlackKing">>, <<Coord(8, 8), "WhiteRook">>}

PinNext ==
  \/ Place(PinPlacements, MaxPinPieces)
  \/ FromBoardHashMap
  \/ \E white \in BOOLEAN : CallGetPiecesPinnedToKing(white)

SpecPin == BuildInit /\ [][PinNext]_vars

\* the enemy sliders that pin along d: rook and queen on orthogonal rays,
\* bishop and queen on diagonal rays
CompatibleSliders(b, white, d) ==
  IF d \in CardinalDirections
    THEN IF white THEN b.black_rooks \cup b.black_queens
                  ELSE b.white_rooks \cup b.white_queens
    ELSE IF white THEN b.black_bishops \cup b.black_queens
                  ELSE b.white_bishops \cup b.white_queens

\* the friendly pieces that are the first non-empty square of a ray from the
\* king and are followed, as the next non-empty square, by a compatible slider
PinnedByRule(b, white) ==
  LET kings == IF white THEN b.white_kings ELSE b.black_kings
      own == IF white THEN b.white_pieces ELSE b.black_pieces
  IN {s \in own :
        \E kg \in kings, d \in KingDirections, j \in 1 .. 6 :
          /\ Displaced(kg, d, j) = {s}
          /\ ClearPath(b, kg, d, j)
          /\ \E k \in 1 .. 6 :
               /\ Displaced(s, d, k) /= {}
               /\ Displaced(s, d, k) \subseteq CompatibleSliders(b, white, d)
               /\ ClearPath(b, s, d, k)}

\* C9: for every position and side, get_pieces_pinned_to_king reports a
\* friendly piece exactly when, walking from the king along a ray, the first
\* non-empty square holds that piece and the next non-empty square holds an
\* enemy slider of the compatible class; an enemy piece met first, or any
\* other piece between the candidate and the slider, means no pin.
C9_Original_PinRule ==
  (pc = "done" /\ call.op = "get_pieces_pinned_to_king") =>
    ret.mask = PinnedByRule(board, call.white)

(***************************************************************************)
(* BoardBitmasks::default and the knight generator (knight_moves.rs)       *)
(***************************************************************************)
Square(x, y) == XCoordinate[x] \cap YCoordinate[y]

DefaultBoard ==
  [all_pieces |-> YCoordinate["One"] \cup YCoordinate["Two"]
                    \cup YCoordinate["Seven"] \cup YCoordinate["Eight"],
   white_pieces |-> YCoordinate["One"] \cup YCoordinate["Two"],
   white_pawns |-> YCoordinate["Two"],
   white_knights |-> Square("B", "One") \cup Square("G", "One"),
   white_bishops |-> Square("C", "One") \cup Square("F", "One"),
   white_rooks |-> Square("A", "One") \cup Square("H", "One"),
   white_queens |-> Square("D", "One"),
   white_kings |-> Square("E", "One"),
   black_pieces |-> YCoordinate["Seven"] \cup YCoordinate["Eight"],
   black_pawns |-> YCoordinate["Seven"],
   black_knights |-> Square("B", "Eight") \cup Square("G", "Eight"),
   black_bishops |-> Square("C", "Eight") \cup Square("F", "Eight"),
   black_rooks |-> Square("A", "Eight") \cup Square("H", "Eight"),
   black_queens |-> Square("D", "Eight"),
   black_kings |-> Square("E", "Eight")]

\* calculate_knight_moves binds its three local masks and returns (): the
\* function has no return type and emits no move
calculate_knight_moves(b, white) ==
  LET local_knights == IF white THEN b.white_knights ELSE b.black_knights
      local_captures == IF white THEN b.black_pieces ELSE b.white_pieces
      local_occupied == IF white THEN b.white_pieces ELSE b.black_pieces
  IN [kind |-> "unit"]

(***************************************************************************)
(* SpecPawnParts: positions set up by inserts, or the starting position,   *)
(* then one call of the white pawn generator, of one of its parts or of    *)
(* the knight generator                                                    *)
(***************************************************************************)
\* BoardBitmasks::default()
Default ==
  /\ pc = "map"
  /\ map = EmptyMap
  /\ pc' = "board"
  /\ board' = DefaultBoard
  /\ call' = [op |-> "default"]
  /\ UNCHANGED <<map, ret>>

CallPromotions ==
  /\ pc = "board"
  /\ pc' = "done"
  /\ call' = [op |-> "calculate_white_pawn_promotions", occupied |-> board.all_pieces]
  /\ ret' = calculate_white_pawn_promotions(board, board.all_pieces)
  /\ UNCHANGED <<map, board>>

CallCaptureLeft ==
  /\ pc = "board"
  /\ pc' = "done"
  /\ call' = [op |-> "calculate_white_pawn_moves_capture_left"]
  /\ ret' = calculate_white_pawn_moves_capture_left(board)
  /\ UNCHANGED <<map, board>>

CallCaptureRight ==
  /\ pc = "board"
  /\ pc' = "done"
  /\ call' = [op |-> "calculate_white_pawn_moves_capture_right"]
  /\ ret' = calculate_white_pawn_moves_capture_right(board)
  /\ UNCHANGED <<map, board>>

CallKnightMoves(white) ==
  /\ pc = "board"
  /\ pc' = "done"
  /\ call' = [op |-> "calculate_knight_moves", white |-> white]
  /\ ret' = calculate_knight_moves(board, white)
  /\ UNCHANGED <<map, board>>

MaxPartsPieces == 3

PartsPlacements ==
  {<<Coord(5, 7), "WhitePawn">>, <<Coord(8, 7), "WhitePawn">>,
   <<Coord(1, 7), "WhitePawn">>, <<Coord(1, 7), "BlackPawn">>,
   <<Coord(5, 8), "BlackRook">>, <<Coord(5, 8), "WhitePawn">>,
   <<Coord(4, 8), "BlackKnight">>, <<Coord(6, 8), "BlackQueen">>,
   <<Coord(7, 8), "BlackBishop">>, <<Coord(2, 8), "BlackKnight">>,
   <<Coord(5, 6), "WhitePawn">>, <<Coord(5, 2), "WhitePawn">>,
   <<Coord(8, 2), "WhitePawn">>, <<Coord(1, 2), "BlackPawn">>,
   <<Coord(4, 3), "BlackRook">>, <<Coord(4, 3), "WhiteKnight">>,
   <<Coord(6, 3), "BlackKnight">>, <<Coord(5, 1), "WhitePawn">>}

PartsEnPassantTargets == {None, Some(Coord(4, 7)), Some(Coord(4, 8))}

PartsNext ==
  \/ Place(PartsPlacements, MaxPartsPieces)
  \/ FromBoardHashMap
  \/ Default
  \/ \E en_passant \in PartsEnPassantTargets : CallWhitePawnMoves(en_passant)
  \/ CallPromotions
  \/ CallCaptureLeft
  \/ CallCaptureRight
  \/ \E white \in BOOLEAN : CallKnightMoves(white)

SpecPawnParts == BuildInit /\ [][PartsNext]_vars

\* the coordinate of a square, by file and rank
CoordOf(sq) == Coord(FileNo(sq), RankNo(sq))

\* the piece class standing on a square of a board whose masks are disjoint
PieceOn(b, sq) == CHOOSE p \in PieceEnum : sq \in piece_enum_to_bitmask(b, p)

\* C11: no move emitted by calculate_white_pawn_moves has piece WhitePawn and
\* end_position on rank 8 or rank 1 unless promotion is Some of WhiteKnight,
\* WhiteBishop, WhiteRook or WhiteQueen, and no move with end_position on
\* ranks 2..7 carries a promotion.
C11_PromotionOnLastRankOnly ==
  (pc = "done" /\ call.op = "calculate_white_pawn_moves") =>
    /\ ret.ok
    /\ \A i \in DOMAIN ret.val :
         LET m == ret.val[i]
         IN m.piece = "WhitePawn" =>
              IF YIndex(m.end_position.y) \in {1, 8}
                THEN /\ m.promotion.some
                     /\ m.promotion.val \in
                          {"WhiteKnight", "WhiteBishop", "WhiteRook", "WhiteQueen"}
                ELSE ~m.promotion.some

\* one call emitted both a promotion onto rank 8 and a plain push
C11_Witness_PromotionAndPush ==
  /\ pc = "done"
  /\ call.op = "calculate_white_pawn_moves"
  /\ ret.ok
  /\ \E i, j \in DOMAIN ret.val :
       /\ YIndex(ret.val[i].end_position.y) = 8 /\ ret.val[i].promotion.some
       /\ YIndex(ret.val[j].end_position.y) = 3 /\ ~ret.val[j].promotion.some

\* the (origin, destination) pairs open to the white pawns on rank 7
PromotionPairs(b) ==
  {pr \in b.white_pawns \X Bits :
     /\ RankNo(pr[1]) = 7
     /\ \/ Displaced(pr[1], "Up", 1) = {pr[2]} /\ pr[2] \notin b.all_pieces
        \/ Displaced(pr[1], "UpLeft", 1) = {pr[2]} /\ pr[2] \in b.black_pieces
        \/ Displaced(pr[1], "UpRight", 1) = {pr[2]} /\ pr[2] \in b.black_pieces}

\* C12: for each white pawn on rank 7 and each of its available destinations
\* (the square ahead if empty, the up-left and up-right squares if they hold
\* a black piece) calculate_white_pawn_promotions emits exactly four moves,
\* promoting to WhiteKnight, WhiteBishop, WhiteRook, WhiteQueen in that order,
\* with takes = (destination, piece found there) exactly for the captures.
C12_FourPromotionsPerDestination ==
  (pc = "done" /\ call.op = "calculate_white_pawn_promotions") =>
    /\ ret.ok
    /\ Len(ret.val) = 4 * Cardinality(PromotionPairs(board))
    /\ \A pr \in PromotionPairs(board) :
         \E i \in DOMAIN ret.val :
           /\ i + 3 <= Len(ret.val)
           /\ \A j \in 0 .. 3 :
                ret.val[i + j] =
                  StandardMove(CoordOf(pr[1]), CoordOf(pr[2]), "WhitePawn", None,
                    Some(<<"WhiteKnight", "WhiteBishop", "WhiteRook", "WhiteQueen">>[j + 1]),
                    IF pr[2] \in board.black_pieces
                      THEN Some(<<CoordOf(pr[2]), PieceOn(board, pr[2])>>)
                      ELSE None)

\* a pawn on e7 that can push to e8 and capture the knight on d8
C12_Witness_PushAndCapture ==
  /\ pc = "done"
  /\ call.op = "calculate_white_pawn_promotions"
  /\ ret.ok
  /\ Len(ret.val) = 8
  /\ ~ret.val[1].takes.some
  /\ ret.val[5].takes = Some(<<Coord(4, 8), "BlackKnight">>)

\* the (origin, destination) pairs of the white pawn captures along d
CapturePairs(b, d) ==
  {pr \in b.white_pawns \X b.black_pieces :
     RankNo(pr[1]) \in 2 .. 6 /\ Displaced(pr[1], d, 1) = {pr[2]}}

\* C15: calculate_white_pawn_moves_capture_left (capture_right) emits exactly
\* one move per white pawn on ranks 2..6 whose up-left (up-right) neighbour
\* on the board is in black_pieces, and no other move: start_position the
\* pawn's square, end_position that neighbour, takes = (end_position,
\* piece_at(end_position)), no promotion; nothing wraps between files A and H.
C15_PawnCaptures ==
  (pc = "done" /\ call.op \in {"calculate_white_pawn_moves_capture_left",
                               "calculate_white_pawn_moves_capture_right"}) =>
    LET d == IF call.op = "calculate_white_pawn_moves_capture_left"
               THEN "UpLeft" ELSE "UpRight"
    IN /\ ret.ok
       /\ Len(ret.val) = Cardinality(CapturePairs(board, d))
       /\ \A pr \in CapturePairs(board, d) :
            \E i \in DOMAIN ret.val :
              ret.val[i] =
                StandardMove(CoordOf(pr[1]), CoordOf(pr[2]), "WhitePawn", None, None,
                             Some(<<CoordOf(pr[2]), PieceOn(board, pr[2])>>))

\* pawn e2, black rook d3: exactly e2xd3 taking BlackRook
C15_Witness_E2TakesD3 ==
  /\ pc = "done"
  /\ call.op = "calculate_white_pawn_moves_capture_left"
  /\ ret = Ok(<<StandardMove(Coord(5, 2), Coord(4, 3), "WhitePawn", None, None,
                             Some(<<Coord(4, 3), "BlackRook">>))>>)

\* C16: from the starting position (BoardBitmasks::default) with no en
\* passant target, white's generated moves are exactly 20: the 16 pawn single
\* and double pushes and 4 knight moves, with no capture and no promotion.
C16_Original_TwentyOpeningMoves ==
  (pc = "done" /\ board = DefaultBoard) =>
    /\ (call.op = "calculate_white_pawn_moves" /\ ~call.en_passant.some) =>
         /\ ret.ok
         /\ Len(ret.val) = 16
         /\ \A i \in DOMAIN ret.val :
              ~ret.val[i].takes.some /\ ~ret.val[i].promotion.some
    /\ (call.op = "calculate_knight_moves" /\ call.white) =>
         /\ "val" \in DOMAIN ret
         /\ Len(ret.val) = 4

(***************************************************************************)
(* SpecPawnPush: the two push generators on any white_pawns mask and any   *)
(* occupied mask.  occupied is a parameter of both functions and the tests *)
(* assign white_pawns directly, so the two masks are independent inputs.   *)
(***************************************************************************)
NumPushPawnSquares == 7

NumPushBlockSquares == 5

PushPawnPool == <<Coord(5, 2), Coord(4, 2), Coord(5, 3), Coord(5, 6),
                  Coord(5, 7), Coord(5, 1), Coord(5, 8), Coord(1, 2), Coord(8, 6)>>

PushBlockPool == <<Coord(5, 3), Coord(5, 4), Coord(4, 4), Coord(5, 7),
                   Coord(5, 2), Coord(4, 3), Coord(1, 3)>>

\* the mask of a set of coordinates
MaskOf(coords) == UNION {to_bitmask(c) : c \in coords}

PushInit ==
  /\ pc = "board"
  /\ map = EmptyMap
  /\ \E pawns \in SUBSET {PushPawnPool[i] : i \in 1 .. NumPushPawnSquares} :
       board = [NewBoard EXCEPT !.white_pawns = MaskOf(pawns)]
  /\ call = NoCall
  /\ ret = NoRet

CallSingleStep(occupied) ==
  /\ pc = "board"
  /\ pc' = "done"
  /\ call' = [op |-> "calculate_white_pawn_moves_single_step", occupied |-> occupied]
  /\ ret' = calculate_white_pawn_moves_single_step(board, occupied)
  /\ UNCHANGED <<map, board>>

CallDoubleStep(occupied) ==
  /\ pc = "board"
  /\ pc' = "done"
  /\ call' = [op |-> "calculate_white_pawn_moves_double_step", occupied |-> occupied]
  /\ ret' = calculate_white_pawn_moves_double_step(board, occupied)
  /\ UNCHANGED <<map, board>>

PushNext ==
  \E blocks \in SUBSET {PushBlockPool[i] : i \in 1 .. NumPushBlockSquares} :
    \/ CallSingleStep(MaskOf(blocks))
    \/ CallDoubleStep(MaskOf(blocks))

SpecPawnPush == PushInit /\ [][PushNext]_vars

\* the pawns that can step: on ranks 2..6 with the square above not occupied
Steppers(b, occupied) ==
  {s \in b.white_pawns :
     RankNo(s) \in 2 .. 6 /\ Displaced(s, "Up", 1) \cap occupied = {}}

\* the pawns that can leap: on rank 2 with the two squares above not occupied
Leapers(b, occupied) ==
  {s \in b.white_pawns :
     /\ RankNo(s) = 2
     /\ Displaced(s, "Up", 1) \cap occupied = {}
     /\ Displaced(s, "Up", 2) \cap occupied = {}}

\* C13: calculate_white_pawn_moves_single_step(occupied) emits exactly one
\* move per white pawn on ranks 2..6 whose square directly above is not in
\* occupied, and no other move: from the pawn's square to the square above,
\* piece WhitePawn, no takes, no promotion, no en passant target.
C13_SingleStep ==
  (pc = "done" /\ call.op = "calculate_white_pawn_moves_single_step") =>
    /\ ret.ok
    /\ Len(ret.val) = Cardinality(Steppers(board, call.occupied))
    /\ \A s \in Steppers(board, call.occupied) :
         \E i \in DOMAIN ret.val :
           ret.val[i] = StandardMove(CoordOf(s), Coord(FileNo(s), RankNo(s) + 1),
                                     "WhitePawn", None, None, None)

\* e2 steps although e6 is blocked by e7 and the pawn on e7 itself is left to
\* the promotion generator
C13_Witness_BlockedNeighbour ==
  /\ pc = "done"
  /\ call.op = "calculate_white_pawn_moves_single_step"
  /\ board.white_pawns = MaskOf({Coord(5, 2), Coord(5, 6), Coord(5, 7)})
  /\ call.occupied = MaskOf({Coord(5, 7), Coord(5, 2)})
  /\ ret = Ok(<<StandardMove(Coord(5, 2), Coord(5, 3), "WhitePawn", None, None, None)>>)

\* C14: calculate_white_pawn_moves_double_step(occupied) emits exactly one
\* move per white pawn on rank 2 for which neither the rank 3 nor the rank 4
\* square of its file is in occupied, and no other move: from the rank 2
\* square to the rank 4 square, en_passant_target the rank 3 square.
C14_DoubleStep ==
  (pc = "done" /\ call.op = "calculate_white_pawn_moves_double_step") =>
    /\ ret.ok
    /\ Len(ret.val) = Cardinality(Leapers(board, call.occupied))
    /\ \A s \in Leapers(board, call.occupied) :
         \E i \in DOMAIN ret.val :
           ret.val[i] = StandardMove(CoordOf(s), Coord(FileNo(s), 4), "WhitePawn",
                                     Some(Coord(FileNo(s), 3)), None, None)

\* e2e4 with en passant target e3, while d2 is stopped by a piece on d4
C14_Witness_E2E4 ==
  /\ pc = "done"
  /\ call.op = "calculate_white_pawn_moves_double_step"
  /\ board.white_pawns = MaskOf({Coord(5, 2), Coord(4, 2)})
  /\ call.occupied = MaskOf({Coord(4, 4), Coord(5, 2)})
  /\ ret = Ok(<<StandardMove(Coord(5, 2), Coord(5, 4), "WhitePawn",
                             Some(Coord(5, 3)), None, None)>>)

(***************************************************************************)
(* Strings (coordinate_point.rs, coordinates.rs).  A &str is a sequence of *)
(* chars, a char is a one-letter string; "U+00E9" stands for the char      *)
(* e-acute, which takes two bytes in UTF-8.                                *)
(***************************************************************************)
len_utf8(c) == IF c = "U+00E9" THEN 2 ELSE 1

\* str::len: the length in bytes
RECURSIVE str_len(_)
str_len(input) ==
  IF input = <<>> THEN 0 ELSE len_utf8(Head(input)) + str_len(Tail(input))

XLower == <<"a", "b", "c", "d", "e", "f", "g", "h">>

XUpper == <<"A", "B", "C", "D", "E", "F", "G", "H">>

YDigits == <<"1", "2", "3", "4", "5", "6", "7", "8">>

\* CoordinateConversion<char>::try_from_value for XCoordinate
XFromChar(value) ==
  LET arms == {i \in 1 .. 8 : value = XLower[i] \/ value = XUpper[i]}
  IN IF arms = {}
       THEN Err([kind |-> "XCoordinateFromInvalidChar", char |-> value])
       ELSE Ok(XNames[CHOOSE i \in arms : TRUE])

\* CoordinateConversion<char>::try_from_value for YCoordinate
YFromChar(value) ==
  LET arms == {i \in 1 .. 8 : value = YDigits[i]}
  IN IF arms = {}
       THEN Err([kind |-> "YCoordinateFromInvalidChar", char |-> value])
       ELSE Ok(YNames[CHOOSE i \in arms : TRUE])

\* CoordinateConversion<char>::to_value
XToChar(x) == XLower[XIndex(x)]

YToChar(y) == YDigits[YIndex(y)]

\* a panic: the call aborts and returns nothing
Panic(message) == [panic |-> message]

\* CoordinatePosition::from_str: the length test is on bytes, the two
\* `.next().expect("Length is 2")` are on chars
from_str(input) ==
  IF str_len(input) /= 2
    THEN Err([kind |-> "XYCoordinatesFromInvalidLengthStr", str |-> input])
  ELSE IF Len(input) < 1 THEN Panic("Length is 2")
  ELSE IF Len(input) < 2 THEN Panic("Length is 2")
  ELSE LET x_char == input[1]
           y_char == input[2]
       IN Try(XFromChar(x_char), LAMBDA x_enum :
            Try(YFromChar(y_char), LAMBDA y_enum :
              Ok([x |-> x_enum, y |-> y_enum])))

\* a plausible slip: the file letter written in upper case
to_string_slip(coord) == <<XUpper[XIndex(coord.x)], YToChar(coord.y)>>

\* Display for CoordinatePosition: write!(f, "{}{}", x_char, y_char)
to_string(coord) == <<XToChar(coord.x), YToChar(coord.y)>>

(***************************************************************************)
(* SpecCoordinate: the four conversions of CoordinatePosition, alone and   *)
(* one after the other.  The input is a string, a mask or a position; a    *)
(* call takes the input, or what the call before it returned.              *)
(***************************************************************************)
MaxStrLen == 3

MaxMaskBits == 2

StrAlphabet == {"a", "h", "A", "H", "i", "1", "8", "0", "9", "U+00E9"}

StringsUpTo(n) == UNION {[1 .. k -> StrAlphabet] : k \in 0 .. n}

CoordinateInit ==
  /\ pc = "input"
  /\ map = EmptyMap
  /\ board = NewBoard
  /\ \/ \E s \in StringsUpTo(MaxStrLen) :
          call = [op |-> "input", type |-> "str", arg |-> s]
     \/ \E m \in MasksUpTo(MaxMaskBits) :
          call = [op |-> "input", type |-> "u64", arg |-> m]
     \/ \E c \in CoordinatePositions :
          call = [op |-> "input", type |-> "CoordinatePosition", arg |-> c]
  /\ ret = NoRet

\* what the last call handed on, and its type
Returns(op) ==
  CASE op = "from_str" -> "Result"
    [] op = "from_bitmask" -> "Result"
    [] op = "to_string" -> "str"
    [] op = "to_bitmask" -> "u64"

Ready(type) ==
  \/ pc = "input" /\ call.type = type
  \/ /\ pc = "once"
     /\ IF Returns(call.op) = "Result"
          THEN type = "CoordinatePosition" /\ "ok" \in DOMAIN ret /\ ret.ok
          ELSE type = Returns(call.op)

Value ==
  IF pc = "input" THEN call.arg
  ELSE IF Returns(call.op) = "Result" THEN ret.val
  ELSE ret

Convert(op, result) ==
  /\ pc' = IF pc = "input" THEN "once" ELSE "done"
  /\ call' = [op |-> op, arg |-> Value, via |-> call]
  /\ ret' = result
  /\ UNCHANGED <<map, board>>

CallFromStr == Ready("str") /\ Convert("from_str", from_str(Value))

CallFromBitmask == Ready("u64") /\ Convert("from_bitmask", from_bitmask(Value))

CallToString == Ready("CoordinatePosition") /\ Convert("to_string", to_string(Value))

CallToBitmask == Ready("CoordinatePosition") /\ Convert("to_bitmask", to_bitmask(Value))

CoordinateNext == CallFromStr \/ CallFromBitmask \/ CallToString \/ CallToBitmask

SpecCoordinate == CoordinateInit /\ [][CoordinateNext]_vars

\* the call `op` has just been made on what `first` returned
After(first, op) == pc = "done" /\ call.op = op /\ call.via.op = first

\* a string with its upper-case file letters in lower case
Lowercased(t) ==
  [k \in DOMAIN t |->
     IF \E i \in 1 .. 8 : t[k] = XUpper[i]
       THEN XLower[CHOOSE i \in 1 .. 8 : t[k] = XUpper[i]]
       ELSE t[k]]

\* C18: for each of the 64 squares s, from_str(s.to_string()) = s and
\* from_bitmask(s.to_bitmask()) = s, and s.to_bitmask() has exactly one bit;
\* from_bitmask(m).to_bitmask() = m for every one-bit mask m, and
\* from_str(t).to_string() is t in lower case for every valid string t.
C18_RoundTrips ==
  /\ After("to_string", "from_str") => ret = Ok(call.via.arg)
  /\ After("to_bitmask", "from_bitmask") => ret = Ok(call.via.arg)
  /\ (pc /= "input" /\ call.op = "to_bitmask") =>
       /\ Cardinality(ret) = 1
       /\ \A sq \in ret : XNames[FileNo(sq)] = call.arg.x /\ YNames[RankNo(sq)] = call.arg.y
  /\ After("from_bitmask", "to_bitmask") => ret = call.via.arg
  /\ After("from_str", "to_string") => ret = Lowercased(call.via.arg)

\* "H8" is read as h8 and written back in lower case
C18_Witness_UpperCaseFile ==
  /\ After("from_str", "to_string")
  /\ call.via.arg = <<"H", "8">>
  /\ call.arg = Coord(8, 8)
  /\ ret = <<"h", "8">>

\* C19: from_bitmask(m) is Ok exactly when m has one bit; it is the
\* empty-mask error for m = 0 and the multi-bit error carrying m for every m
\* of two or more bits.
C19_FromBitmask ==
  (pc /= "input" /\ call.op = "from_bitmask") =>
    /\ ret.ok <=> Cardinality(call.arg) = 1
    /\ call.arg = {} =>
         ret = Err([kind |-> "XYCoordinatesFromEmptyBitmask", mask |-> call.arg])
    /\ Cardinality(call.arg) >= 2 =>
         ret = Err([kind |-> "XYCoordinatesFromMultiBitBitmask", mask |-> call.arg])

\* a1 and h8 together: two files, two ranks, one multi-bit error
C19_Witness_TwoFilesTwoRanks ==
  /\ pc = "once"
  /\ call.op = "from_bitmask"
  /\ call.arg = {7, 56}
  /\ ret = Err([kind |-> "XYCoordinatesFromMultiBitBitmask", mask |-> {7, 56}])

\* C20: from_str returns for every string: the invalid-length error when the
\* input is not exactly two characters, otherwise the file error when the
\* first character is outside a-h and A-H, otherwise the rank error when the
\* second is outside 1-8, otherwise the square; it never aborts.
C20_Original_FromStrTotal ==
  (pc /= "input" /\ call.op = "from_str") =>
    LET input == call.arg
        file == {i \in 1 .. 8 : input[1] = XLower[i] \/ input[1] = XUpper[i]}
        rank == {i \in 1 .. 8 : input[2] = YDigits[i]}
    IN /\ "ok" \in DOMAIN ret
       /\ IF Len(input) /= 2
            THEN ret = Err([kind |-> "XYCoordinatesFromInvalidLengthStr", str |-> input])
          ELSE IF file = {}
            THEN ret = Err([kind |-> "XCoordinateFromInvalidChar", char |-> input[1]])
          ELSE IF rank = {}
            THEN ret = Err([kind |-> "YCoordinateFromInvalidChar", char |-> input[2]])
          ELSE \A f \in file, r \in rank : ret = Ok(Coord(f, r))

(***************************************************************************)
(* UCI rendering (standard_move.rs, chess_pieces.rs)                       *)
(***************************************************************************)
CheckType == {"None", "Check", "Checkmate"}

\* StandardMove of standard_move.rs: the six fields and `check`
StandardMoveWithCheck(start_position, end_position, piece, en_passant_target,
                      promotion, takes, check) ==
  [start_position |-> start_position, end_position |-> end_position,
   piece |-> piece, en_passant_target |-> en_passant_target,
   promotion |-> promotion, takes |-> takes, check |-> check]

\* Display for PieceEnum
piece_fmt(piece) ==
  CASE piece = "WhitePawn" -> <<"P">>
    [] piece = "WhiteKnight" -> <<"N">>
    [] piece = "WhiteBishop" -> <<"B">>
    [] piece = "WhiteRook" -> <<"R">>
    [] piece = "WhiteQueen" -> <<"Q">>
    [] piece = "WhiteKing" -> <<"K">>
    [] piece = "BlackPawn" -> <<"p">>
    [] piece = "BlackKnight" -> <<"n">>
    [] piece = "BlackBishop" -> <<"b">>
    [] piece = "BlackRook" -> <<"r">>
    [] piece = "BlackQueen" -> <<"q">>
    [] piece = "BlackKing" -> <<"k">>

\* a plausible slip: the check mark written before the promotion
get_uci_move_slip(self) ==
  LET x == IF self.takes.some THEN <<"x">> ELSE <<>>
      promotion == IF self.promotion.some
                     THEN <<"=">> \o piece_fmt(self.promotion.val)
                     ELSE <<>>
      check == CASE self.check = "None" -> <<>>
                 [] self.check = "Check" -> <<"+">>
                 [] self.check = "Checkmate" -> <<"#">>
  IN to_string(self.start_position) \o x \o to_string(self.end_position)
       \o check \o promotion

\* StandardMove::get_uci_move
get_uci_move(self) ==
  LET x == IF self.takes.some THEN <<"x">> ELSE <<>>
      promotion == IF self.promotion.some
                     THEN <<"=">> \o piece_fmt(self.promotion.val)
                     ELSE <<>>
      check == CASE self.check = "None" -> <<>>
                 [] self.check = "Check" -> <<"+">>
                 [] self.check = "Checkmate" -> <<"#">>
  IN to_string(self.start_position) \o x \o to_string(self.end_position)
       \o promotion \o check

(***************************************************************************)
(* SpecUci: get_uci_move as a pure function of the move                    *)
(***************************************************************************)
NumUciSquares == 2

UciSquarePool == <<Coord(5, 7), Coord(4, 8), Coord(8, 1), Coord(1, 4)>>

UciSquares == {UciSquarePool[i] : i \in 1 .. NumUciSquares}

UciMoves ==
  {StandardMoveWithCheck(s, e, piece, en_passant_target, promotion, takes, check) :
     s \in UciSquares, e \in UciSquares,
     piece \in {"WhitePawn", "BlackQueen"},
     en_passant_target \in {None, Some(Coord(5, 3))},
     promotion \in {None} \cup {Some(p) : p \in PieceEnum},
     takes \in {None} \cup {Some(<<c, p>>) : c \in UciSquares,
                                            p \in {"BlackRook", "WhitePawn"}},
     check \in CheckType}

UciInit ==
  /\ pc = "input"
  /\ map = EmptyMap
  /\ board = NewBoard
  /\ \E m \in UciMoves : call = [op |-> "input", move |-> m]
  /\ ret = NoRet

CallGetUciMove ==
  /\ pc = "input"
  /\ pc' = "done"
  /\ call' = [op |-> "get_uci_move", move |-> call.move]
  /\ ret' = get_uci_move(call.move)
  /\ UNCHANGED <<map, board>>

UciNext == CallGetUciMove

SpecUci == UciInit /\ [][UciNext]_vars

\* a square as lower-case file letter and rank digit
SquareText(coord) ==
  LET sq == CHOOSE s \in Bits : to_bitmask(coord) = {s}
  IN <<XLower[FileNo(sq)], YDigits[RankNo(sq)]>>

\* the letter of a piece: upper case for white, lower case for black
PromotionLetter(piece) ==
  IF \E i \in 1 .. 6 : WhiteOrder[i] = piece
    THEN <<"P", "N", "B", "R", "Q", "K">>[CHOOSE i \in 1 .. 6 : WhiteOrder[i] = piece]
    ELSE <<"p", "n", "b", "r", "q", "k">>[CHOOSE i \in 1 .. 6 : BlackOrder[i] = piece]

\* C17: get_uci_move returns, in this order: the from-square, "x" iff takes is
\* present, the to-square, "=" and the promotion piece's letter (upper case
\* for white, lower case for black) iff promotion is present, and "+" for
\* Check, "#" for Checkmate, nothing for None.
C17_UciRendering ==
  (pc = "done" /\ call.op = "get_uci_move") =>
    LET m == call.move
    IN ret = SquareText(m.start_position)
               \o (IF m.takes = None THEN <<>> ELSE <<"x">>)
               \o SquareText(m.end_position)
               \o (IF m.promotion = None THEN <<>>
                   ELSE <<"=", PromotionLetter(m.promotion.val)>>)
               \o (IF m.check = "Check" THEN <<"+">>
                   ELSE IF m.check = "Checkmate" THEN <<"#">> ELSE <<>>)

\* e7xd8=q#: a capture, a promotion to a black piece and a checkmate together
C17_Witness_CapturePromotionMate ==
  /\ pc = "done"
  /\ call.op = "get_uci_move"
  /\ call.move.takes.some
  /\ call.move.promotion = Some("BlackQueen")
  /\ call.move.check = "Checkmate"
  /\ ret = <<"e", "7", "x", "d", "8", "=", "q", "#">>

(***************************************************************************)
(* SpecHashMap: BoardHashMap::insert and BoardHashMap::get.  `call` keeps  *)
(* the map as it was before the call and the log of the inserts made.      *)
(***************************************************************************)
\* BoardHashMap::get
get(m, position) ==
  LET key == single_bit_bitmask_to_u8(to_bitmask(position))
  IN IF key \in DOMAIN m THEN Some(m[key]) ELSE None

MaxInserts == 3

HashMapSquares == {Coord(5, 4), Coord(8, 1)}

HashMapPieces == {"WhiteKing", "BlackPawn", "WhiteRook"}

InsertLog == IF "log" \in DOMAIN call THEN call.log ELSE <<>>

LoggedInsert(point, piece, replace) ==
  /\ pc = "map"
  /\ Len(InsertLog) < MaxInserts
  /\ LET r == insert(map, point, piece, replace)
     IN /\ map' = r.map
        /\ ret' = r.result
        /\ call' = [op |-> "insert", point |-> point, piece |-> piece,
                    replace |-> replace, before |-> map,
                    log |-> Append(InsertLog, [point |-> point, piece |-> piece,
                                               ok |-> r.result.ok])]
  /\ UNCHANGED <<pc, board>>

Get(position) ==
  /\ pc = "map"
  /\ pc' = "done"
  /\ call' = [op |-> "get", position |-> position, before |-> map, log |-> InsertLog]
  /\ ret' = get(map, position)
  /\ UNCHANGED <<map, board>>

HashMapNext ==
  \/ \E point \in HashMapSquares, piece \in HashMapPieces, replace \in BOOLEAN :
       LoggedInsert(point, piece, replace)
  \/ \E position \in HashMapSquares : Get(position)

SpecHashMap == BuildInit /\ [][HashMapNext]_vars

\* the piece of the last successful insert on a square, or None
RECURSIVE LastStored(_, _)
LastStored(log, square) ==
  IF log = <<>> THEN None
  ELSE LET last == log[Len(log)]
       IN IF last.point = square /\ last.ok THEN Some(last.piece)
          ELSE LastStored(SubSeq(log, 1, Len(log) - 1), square)

\* C21: insert without replace on an occupied square returns the duplicate
\* error carrying the square and the piece already there and leaves the map
\* unchanged; with replace it overwrites and returns Ok; on an empty square
\* it stores the piece whatever the flag; get(square) is the piece of the
\* last successful insert on that square, or None.
C21_InsertAndGet ==
  /\ call.op = "insert" =>
       LET sq == trailing_zeros(to_bitmask(call.point))
           occupied == sq \in DOMAIN call.before
       IN IF occupied /\ ~call.replace
            THEN /\ ret = Err([kind |-> "InsertedIntoFilledBoardPositionWithNoReplace",
                               point |-> call.point, piece |-> call.before[sq]])
                 /\ map = call.before
            ELSE /\ ret = Ok("unit")
                 /\ DOMAIN map = DOMAIN call.before \cup {sq}
                 /\ map[sq] = call.piece
                 /\ \A k \in DOMAIN call.before : k /= sq => map[k] = call.before[k]
  /\ call.op = "get" => ret = LastStored(call.log, call.position)

\* e4 is filled, overwritten with replace, a third insert without replace is
\* refused, and get(e4) is the piece of the second insert
C21_Witness_RefusedAfterReplace ==
  /\ pc = "done"
  /\ call.op = "get"
  /\ call.position = Coord(5, 4)
  /\ Len(call.log) = 3
  /\ \A i \in 1 .. 3 : call.log[i].point = Coord(5, 4)
  /\ call.log[1].ok /\ call.log[2].ok /\ ~call.log[3].ok
  /\ call.log[1].piece /= call.log[2].piece
  /\ ret = Some(call.log[2].piece)

\* C22: every board built by from_board_hash_map after any sequence of
\* inserts has exactly one white king and exactly one black king.
C22_Original_OneKingEachSide ==
  pc = "board" =>
    /\ Cardinality(board.white_kings) = 1
    /\ Cardinality(board.black_kings) = 1

\* the direction that undoes a direction
Opposite(d) ==
  CASE d = "Up" -> "Down"                 [] d = "Down" -> "Up"
    [] d = "Left" -> "Right"              [] d = "Right" -> "Left"
    [] d = "UpRight" -> "DownLeft"        [] d = "DownLeft" -> "UpRight"
    [] d = "UpLeft" -> "DownRight"        [] d = "DownRight" -> "UpLeft"
    [] d = "KnightOne" -> "KnightSeven"   [] d = "KnightSeven" -> "KnightOne"
    [] d = "KnightTwo" -> "KnightEight"   [] d = "KnightEight" -> "KnightTwo"
    [] d = "KnightFour" -> "KnightTen"    [] d = "KnightTen" -> "KnightFour"
    [] d = "KnightFive" -> "KnightEleven" [] d = "KnightEleven" -> "KnightFive"

\* C23: for all 16 directions d and all masks m,
\* shift_move(shift_move(m, d), opposite(d)) is a subset of m, and
\* shift_move(m, d) has no more bits than m.
C23_ShiftBackIsSubset ==
  pc = "shift_done" =>
    /\ shift_move(ret.mask, Opposite(call.direction)) \subseteq call.mask
    /\ Cardinality(ret.mask) <= Cardinality(call.mask)

\* KnightOne from h1 and e4: h1 is dropped at the H file, e4 lands on f6 and
\* KnightSeven brings it back to e4 alone
C23_Witness_KnightThereAndBack ==
  /\ pc = "shift_done"
  /\ call.direction = "KnightOne"
  /\ call.mask = {SquareAt(8, 1), SquareAt(5, 4)}
  /\ ret.mask = {SquareAt(6, 6)}
  /\ shift_move(ret.mask, "KnightSeven") = {SquareAt(5, 4)}

(***************************************************************************)
(* Queen attack map (attack_maps.rs) and board flips (chess_flip.rs)       *)
(***************************************************************************)
\* a plausible slip: the up_left ray left out of the final OR
calculate_unconstrained_queen_attack_maps_slip(m) ==
  UNION {RayFold(shift_move(m, d), d, 7) : d \in KingDirections \ {"UpLeft"}}

\* up | up_right | right | down_right | down | down_left | left | up_left
calculate_unconstrained_queen_attack_maps(m) ==
  UNION {RayFold(shift_move(m, d), d, 7) : d \in KingDirections}

\* u64::to_be_bytes: the most significant byte first, each byte a set of bits 0..7
to_be_bytes(m) ==
  [j \in 1 .. 8 |-> {i - 8 * (8 - j) : i \in m \cap (8 * (8 - j) .. 8 * (8 - j) + 7)}]

\* u64::from_be_bytes
from_be_bytes(bytes) ==
  UNION {{b + 8 * (8 - j) : b \in bytes[j]} : j \in 1 .. 8}

\* the nested fn invert_byte: bit (7 - bit_no) of byte becomes bit bit_no
invert_byte(byte) ==
  IF byte /= {} THEN {bit_no \in 0 .. 7 : (7 - bit_no) \in byte} ELSE {}

\* ChessFlip::flip_horizontal
flip_horizontal(m) ==
  from_be_bytes([j \in 1 .. 8 |-> invert_byte(to_be_bytes(m)[j])])

\* ChessFlip::flip_vertical: u64::swap_bytes
flip_vertical(m) ==
  from_be_bytes([j \in 1 .. 8 |-> to_be_bytes(m)[9 - j]])

\* a plausible slip: the vertical half forgotten
flip_slip(m) == flip_horizontal(m)

\* ChessFlip::flip
flip(m) == flip_vertical(flip_horizontal(m))

(***************************************************************************)
(* SpecMaskOps: the attack maps and the flips as functions of a mask.  The *)
(* mask is any one square together with up to MaxExtraBits more squares;   *)
(* a flip may be applied to the mask or to what the call before returned.  *)
(***************************************************************************)
MaxExtraBits == 1

ExtraBitPool == <<SquareAt(6, 4), SquareAt(1, 1), SquareAt(8, 8), SquareAt(6, 7)>>

RECURSIVE ExtrasUpTo(_)
ExtrasUpTo(n) ==
  IF n = 0 THEN {{}}
  ELSE LET P == ExtrasUpTo(n - 1)
       IN P \cup {p \cup {ExtraBitPool[i]} : p \in P, i \in DOMAIN ExtraBitPool}

MaskOpsInit ==
  /\ pc = "input"
  /\ map = EmptyMap
  /\ board = NewBoard
  /\ \E s \in Bits, extra \in ExtrasUpTo(MaxExtraBits) :
       call = [op |-> "input", mask |-> {s} \cup extra]
  /\ ret = NoRet

\* the mask a call is made on: the input, or what the last call returned
Operand == IF pc = "input" THEN call.mask ELSE ret.mask

MaskOp(op, result) ==
  /\ pc' = IF pc = "input" THEN "once" ELSE "done"
  /\ call' = [op |-> op, mask |-> Operand, via |-> call]
  /\ ret' = [kind |-> "mask", mask |-> result]
  /\ UNCHANGED <<map, board>>

CallRookAttackMaps ==
  /\ pc = "input"
  /\ MaskOp("calculate_unconstrained_rook_attack_maps",
            calculate_unconstrained_rook_attack_maps(Operand))

CallBishopAttackMaps ==
  /\ pc = "input"
  /\ MaskOp("calculate_unconstrained_bishop_attack_maps",
            calculate_unconstrained_bishop_attack_maps(Operand))

CallQueenAttackMaps ==
  /\ pc = "input"
  /\ MaskOp("calculate_unconstrained_queen_attack_maps",
            calculate_unconstrained_queen_attack_maps(Operand))

FlipReady == pc = "input" \/ (pc = "once" /\ call.op \in {"flip_horizontal", "flip_vertical", "flip"})

CallFlipHorizontal == FlipReady /\ MaskOp("flip_horizontal", flip_horizontal(Operand))

CallFlipVertical == FlipReady /\ MaskOp("flip_vertical", flip_vertical(Operand))

CallFlip == FlipReady /\ MaskOp("flip", flip(Operand))

MaskOpsNext ==
  \/ CallRookAttackMaps
  \/ CallBishopAttackMaps
  \/ CallQueenAttackMaps
  \/ CallFlipHorizontal
  \/ CallFlipVertical
  \/ CallFlip

SpecMaskOps == MaskOpsInit /\ [][MaskOpsNext]_vars

\* the squares of the file and rank of s, and of its two diagonals, without s
RookSquares(s) ==
  {q \in Bits : q /= s /\ (FileNo(q) = FileNo(s) \/ RankNo(q) = RankNo(s))}

BishopSquares(s) ==
  {q \in Bits : q /= s /\ (\/ FileNo(q) - FileNo(s) = RankNo(q) - RankNo(s)
                           \/ FileNo(q) - FileNo(s) = RankNo(s) - RankNo(q))}

\* C24: on an empty board the bishop map of a square is the squares of its two
\* diagonals other than itself, the rook map the squares of its rank and file
\* other than itself, the queen map the union of the two; the map of a mask
\* of several squares is the union of the maps of its squares.
C24_AttackMaps ==
  /\ (pc = "once" /\ call.op = "calculate_unconstrained_bishop_attack_maps") =>
       /\ ret.mask = UNION {BishopSquares(s) : s \in call.mask}
       /\ ret.mask = UNION {calculate_unconstrained_bishop_attack_maps({s}) : s \in call.mask}
  /\ (pc = "once" /\ call.op = "calculate_unconstrained_rook_attack_maps") =>
       /\ ret.mask = UNION {RookSquares(s) : s \in call.mask}
       /\ ret.mask = UNION {calculate_unconstrained_rook_attack_maps({s}) : s \in call.mask}
  /\ (pc = "once" /\ call.op = "calculate_unconstrained_queen_attack_maps") =>
       /\ ret.mask = calculate_unconstrained_rook_attack_maps(call.mask)
                       \cup calculate_unconstrained_bishop_attack_maps(call.mask)
       /\ ret.mask = UNION {RookSquares(s) \cup BishopSquares(s) : s \in call.mask}
       /\ ret.mask = UNION {calculate_unconstrained_queen_attack_maps({s}) : s \in call.mask}

\* the bishop on f4 of the source's test: eleven squares
C24_Witness_BishopF4 ==
  /\ pc = "once"
  /\ call.op = "calculate_unconstrained_bishop_attack_maps"
  /\ call.mask = {SquareAt(6, 4)}
  /\ Cardinality(ret.mask) = 11
  /\ {SquareAt(8, 6), SquareAt(8, 2), SquareAt(3, 1), SquareAt(2, 8)} \subseteq ret.mask

\* C30: flip_horizontal moves (f, r) to (mirror file, r), flip_vertical to
\* (f, 9 - r), flip to (mirror file, 9 - r); each is an involution and keeps
\* the number of bits; flip_vertical(shift_move(m, Up)) =
\* shift_move(flip_vertical(m), Down).
C30_Flips ==
  /\ (pc /= "input" /\ call.op = "flip_horizontal") =>
       /\ ret.mask = {SquareAt(9 - FileNo(s), RankNo(s)) : s \in call.mask}
       /\ Cardinality(ret.mask) = Cardinality(call.mask)
  /\ (pc /= "input" /\ call.op = "flip_vertical") =>
       /\ ret.mask = {SquareAt(FileNo(s), 9 - RankNo(s)) : s \in call.mask}
       /\ Cardinality(ret.mask) = Cardinality(call.mask)
       /\ shift_move(ret.mask, "Down") = flip_vertical(shift_move(call.mask, "Up"))
  /\ (pc /= "input" /\ call.op = "flip") =>
       /\ ret.mask = {SquareAt(9 - FileNo(s), 9 - RankNo(s)) : s \in call.mask}
       /\ Cardinality(ret.mask) = Cardinality(call.mask)
  /\ (pc = "done" /\ call.op = call.via.op) => ret.mask = call.via.mask

\* a1 and f4 flipped to h8 and c5, and flipped back
C30_Witness_FlipTwice ==
  /\ pc = "done"
  /\ call.op = "flip"
  /\ call.via.op = "flip"
  /\ call.via.mask = {SquareAt(1, 1), SquareAt(6, 4)}
  /\ call.mask = {SquareAt(8, 8), SquareAt(3, 5)}
  /\ ret.mask = {SquareAt(1, 1), SquareAt(6, 4)}

(***************************************************************************)
(* SpecMoveOrder: positions set up by inserts and built into bitboards,    *)
(* then one call of the white pawn generator, of one of its six parts or   *)
(* of a slider generator                                                   *)
(***************************************************************************)
MaxOrderPieces == 3

OrderPlacements ==
  {<<Coord(1, 7), "WhitePawn">>, <<Coord(8, 7), "WhitePawn">>,
   <<Coord(7, 8), "BlackBishop">>, <<Coord(2, 8), "BlackKnight">>,
   <<Coord(5, 2), "WhitePawn">>, <<Coord(4, 2), "WhitePawn">>,
   <<Coord(4, 3), "BlackRook">>, <<Coord(6, 3), "BlackKnight">>,
   <<Coord(5, 6), "WhitePawn">>, <<Coord(3, 6), "WhitePawn">>,
   <<Coord(1, 1), "WhiteRook">>, <<Coord(3, 1), "WhiteRook">>,
   <<Coord(1, 2), "BlackPawn">>, <<Coord(2, 2), "WhiteBishop">>}

OrderEnPassantTargets == {None, Some(Coord(4, 7))}

OrderNext ==
  \/ Place(OrderPlacements, MaxOrderPieces)
  \/ FromBoardHashMap
  \/ \E en_passant \in OrderEnPassantTargets : CallWhitePawnMoves(en_passant)
  \/ CallSingleStep(board.all_pieces)
  \/ CallDoubleStep(board.all_pieces)
  \/ CallCaptureLeft
  \/ CallCaptureRight
  \/ \E en_passant \in OrderEnPassantTargets : CallEnPassant(en_passant)
  \/ CallPromotions
  \/ \E direction \in {"Up", "Right"} : CallCardinalMoves("WhiteRook", direction)
  \/ \E direction \in {"UpRight", "UpLeft"} : CallDiagonalMoves("WhiteBishop", direction)

SpecMoveOrder == BuildInit /\ [][OrderNext]_vars

\* the bit index of a coordinate
BitOf(coord) == trailing_zeros(to_bitmask(coord))

DestBits(moves) == [i \in DOMAIN moves |-> BitOf(moves[i].end_position)]

OriginBits(moves) == [i \in DOMAIN moves |-> BitOf(moves[i].start_position)]

StrictlyAscending(s) == \A i, j \in DOMAIN s : i < j => s[i] < s[j]

RECURSIVE Concat(_)
Concat(seqs) == IF seqs = <<>> THEN <<>> ELSE Head(seqs) \o Concat(Tail(seqs))

\* the stack frames a slider generator packs for a white piece
SliderFrames(b, piece_type, direction) ==
  LET valid_moves == shift_move(piece_enum_to_bitmask(b, piece_type), direction)
                       \ b.white_pieces
  IN PackLoop(<<TempMove(valid_moves, valid_moves \cap b.black_pieces)>>,
              direction, b.white_pieces, b.black_pieces)

PawnPartOps ==
  {"calculate_white_pawn_moves_single_step", "calculate_white_pawn_moves_double_step",
   "calculate_white_pawn_moves_capture_left", "calculate_white_pawn_moves_capture_right"}

\* the order of the six parts in calculate_white_pawn_moves, of the frames of a
\* slider generator and of the destinations inside a frame
OrderOfPartsAndFrames ==
  /\ (pc = "done" /\ call.op = "calculate_white_pawn_moves" /\ ret.ok) =>
       /\ ret.val = calculate_white_pawn_moves_single_step(board, board.all_pieces).val
                      \o calculate_white_pawn_moves_double_step(board, board.all_pieces).val
                      \o calculate_white_pawn_moves_capture_left(board).val
                      \o calculate_white_pawn_moves_capture_right(board).val
                      \o calculate_white_pawn_moves_en_passant(board, call.en_passant).val
                      \o calculate_white_pawn_promotions(board, board.all_pieces).val
       /\ ret = calculate_white_pawn_moves(board, call.en_passant)
  /\ (pc = "done" /\ call.op \in PawnPartOps /\ ret.ok) =>
       StrictlyAscending(DestBits(ret.val))
  /\ (pc = "done" /\ call.op = "calculate_white_pawn_moves_en_passant" /\ ret.ok) =>
       StrictlyAscending(OriginBits(ret.val))
  /\ SliderReturned =>
       LET frames == SliderFrames(board, call.piece, call.direction)
       IN DestBits(ret.val) =
            Concat([k \in DOMAIN frames |-> BitsAscending(frames[k].moves)])
  /\ pc /= "map" => \A order \in IterOrders(DOMAIN map) :
                      from_board_hash_map(map, order) = board

\* C25: calculate_white_pawn_moves returns single pushes, double pushes, left
\* captures, right captures, en passant, promotions in that order; inside
\* each of the six parts and inside each slider frame the moves are in
\* strictly ascending bit index of the destination (of the origin for en
\* passant), slider frames in increasing ray distance; the same inputs give
\* the same list.
C25_Original_StrictlyAscending ==
  /\ OrderOfPartsAndFrames
  /\ (pc = "done" /\ call.op = "calculate_white_pawn_promotions" /\ ret.ok) =>
       StrictlyAscending(DestBits(ret.val))

\* the loop of calculate_white_pawn_promotions a move comes from: the pushes,
\* the captures toward the A file, the captures toward the H file
PromotionLoop(m) ==
  IF ~m.takes.some THEN 1
  ELSE IF FileNo(BitOf(m.end_position)) < FileNo(BitOf(m.start_position)) THEN 2
  ELSE 3

PromotionRank(m) ==
  CHOOSE i \in 1 .. 4 : m.promotion = Some(PromotionPieces[i])

\* C25 as it holds: the six parts in the stated order; single pushes, double
\* pushes, left captures and right captures in strictly ascending destination
\* bit, en passant in strictly ascending origin bit; the promotions as three
\* runs (pushes, left captures, right captures), each in ascending
\* destination bit with the four promotions of a destination together in the
\* order knight, bishop, rook, queen; slider frames in increasing ray distance
\* and ascending destination bit inside a frame; the same inputs give the
\* same list.
C25_MoveOrder ==
  /\ OrderOfPartsAndFrames
  /\ (pc = "done" /\ call.op = "calculate_white_pawn_promotions" /\ ret.ok) =>
       \A i, j \in DOMAIN ret.val :
         i < j =>
           LET a == ret.val[i]
               b == ret.val[j]
           IN \/ PromotionLoop(a) < PromotionLoop(b)
              \/ /\ PromotionLoop(a) = PromotionLoop(b)
                 /\ \/ BitOf(a.end_position) < BitOf(b.end_position)
                    \/ /\ a.end_position = b.end_position
                       /\ PromotionRank(a) < PromotionRank(b)

\* pawns on a7 and h7 and a black bishop on g8: the pushes to h8 and a8 come
\* first, the capture on g8, a lower bit than a8, after them
C25_Witness_CaptureAfterPushes ==
  /\ pc = "done"
  /\ call.op = "calculate_white_pawn_promotions"
  /\ ret.ok
  /\ DestBits(ret.val) = <<56, 56, 56, 56, 63, 63, 63, 63, 57, 57, 57, 57>>

(***************************************************************************)
(* SpecPackLive: the two slider generators one loop iteration at a time.   *)
(* ret holds the locals of the running call: the stack packed_moves while  *)
(* packing, then index, move_copy and output of unpack_moves, together     *)
(* with the number of iterations the inner while loop has made on the      *)
(* current frame.                                                          *)
(***************************************************************************)
NumPackPlacements == 7

PackPool == <<<<Coord(1, 2), "BlackPawn">>, <<Coord(1, 3), "BlackPawn">>,
              <<Coord(1, 4), "BlackPawn">>, <<Coord(1, 5), "BlackPawn">>,
              <<Coord(1, 6), "BlackPawn">>, <<Coord(1, 7), "BlackPawn">>,
              <<Coord(1, 8), "BlackPawn">>, <<Coord(2, 2), "BlackPawn">>,
              <<Coord(1, 4), "WhitePawn">>, <<Coord(3, 1), "BlackPawn">>>>

\* the map after insert(.., false) of the queens on a1 and b1 and of the
\* chosen placements, in the order of the pool
RECURSIVE PackMap(_, _)
PackMap(chosen, n) ==
  IF n = 0
    THEN insert(insert(EmptyMap, Coord(1, 1), "WhiteQueen", FALSE).map,
                Coord(2, 1), "WhiteQueen", FALSE).map
  ELSE IF n \in chosen
    THEN insert(PackMap(chosen, n - 1), PackPool[n][1], PackPool[n][2], FALSE).map
    ELSE PackMap(chosen, n - 1)

PackInit ==
  /\ pc = "board"
  /\ \E chosen \in SUBSET (1 .. NumPackPlacements) :
       /\ map = PackMap(chosen, NumPackPlacements)
       /\ board = from_board_hash_map(map, BitsAscending(DOMAIN map))
  /\ call = NoCall
  /\ ret = NoRet

\* the generator up to its loop: the two validating matches, then the first frame
StartSlider(function, piece_type, direction) ==
  /\ pc = "board"
  /\ call' = [op |-> function, piece |-> piece_type, direction |-> direction]
  /\ LET accepted == IF function = "calculate_cardinal_moves_for_direction"
                       THEN {"WhiteRook", "WhiteQueen", "BlackRook", "BlackQueen"}
                       ELSE {"WhiteBishop", "WhiteQueen", "BlackBishop", "BlackQueen"}
         directions == IF function = "calculate_cardinal_moves_for_direction"
                         THEN CardinalDirections ELSE DiagonalDirections
         white == piece_type \in WhitePieceEnums
         own_pieces == IF white THEN board.white_pieces ELSE board.black_pieces
         opponent_pieces == IF white THEN board.black_pieces ELSE board.white_pieces
         starting_position == piece_enum_to_bitmask(board, piece_type)
         valid_moves == shift_move(starting_position, direction) \ own_pieces
         captures == valid_moves \cap opponent_pieces
     IN IF piece_type \notin accepted
          THEN pc' = "done" /\ ret' = InvalidPieceType(function, piece_type)
        ELSE IF direction \notin directions
          THEN pc' = "done" /\ ret' = InvalidDirection(function, direction)
        ELSE /\ pc' = "pack"
             /\ ret' = [packed_moves |-> <<TempMove(valid_moves, captures)>>,
                        own_pieces |-> own_pieces, opponent_pieces |-> opponent_pieces]
  /\ UNCHANGED <<map, board>>

\* one iteration of `loop { .. }`: break, or push the next frame
PackStep ==
  /\ pc = "pack"
  /\ LET previous_move == ret.packed_moves[Len(ret.packed_moves)]
         valid_moves == shift_move(previous_move.moves, call.direction) \ ret.own_pieces
         captures == valid_moves \cap ret.opponent_pieces
     IN IF previous_move.moves \cap previous_move.captures = {}
          THEN /\ pc' = "unpack"
               /\ ret' = [packed_moves |-> ret.packed_moves, index |-> 0,
                          move_copy |-> ret.packed_moves[1].moves,
                          output |-> <<>>, iterations |-> 0]
          ELSE /\ pc' = "pack"
               /\ ret' = [ret EXCEPT !.packed_moves =
                                       Append(@, TempMove(valid_moves, captures))]
  /\ UNCHANGED <<map, board, call>>

\* a plausible slip: the mask cleared up to and including the bit above the
\* lowest set bit
clear_lowest_slip(move_copy, next_move_bitmask) ==
  move_copy \ (next_move_bitmask \cup Shl(next_move_bitmask, 1))

\* move_copy &= !next_move_bitmask
clear_lowest(move_copy, next_move_bitmask) == move_copy \ next_move_bitmask

\* one step of unpack_moves: the for loop moves to the next frame or ends, or
\* the while loop emits the move of the lowest set bit
UnpackStep ==
  /\ pc = "unpack"
  /\ IF ret.index >= Len(ret.packed_moves)
       THEN pc' = "done" /\ ret' = Ok(ret.output)
     ELSE IF ret.move_copy = {}
       THEN /\ pc' = "unpack"
            /\ ret' = [ret EXCEPT !.index = @ + 1,
                                  !.move_copy = IF ret.index + 2 <= Len(ret.packed_moves)
                                                  THEN ret.packed_moves[ret.index + 2].moves
                                                  ELSE {},
                                  !.iterations = 0]
     ELSE
       LET next_move_bitmask == {trailing_zeros(ret.move_copy)}
           next_move_coord == from_bitmask(next_move_bitmask)
           starting_pos_coord ==
             from_bitmask(undo_moves(next_move_bitmask, ret.index,
                                     ReverseDirection(call.direction)))
           is_capture ==
             next_move_bitmask \cap ret.packed_moves[ret.index + 1].captures /= {}
           captured == get_piece_type_for_capture(board, next_move_coord.val)
       IN IF ~next_move_coord.ok THEN pc' = "done" /\ ret' = next_move_coord
          ELSE IF ~starting_pos_coord.ok THEN pc' = "done" /\ ret' = starting_pos_coord
          ELSE IF is_capture /\ ~captured.ok THEN pc' = "done" /\ ret' = captured
          ELSE /\ pc' = "unpack"
               /\ ret' = [ret EXCEPT
                            !.move_copy = clear_lowest(@, next_move_bitmask),
                            !.iterations = @ + 1,
                            !.output = Append(@,
                              StandardMove(starting_pos_coord.val, next_move_coord.val,
                                call.piece, None, None,
                                IF is_capture
                                  THEN Some(<<next_move_coord.val, captured.val>>)
                                  ELSE None))]
  /\ UNCHANGED <<map, board, call>>

PackNext ==
  \/ StartSlider("calculate_cardinal_moves_for_direction", "WhiteQueen", "Up")
  \/ StartSlider("calculate_diagonal_moves_for_direction", "WhiteQueen", "UpRight")
  \/ PackStep
  \/ UnpackStep

SpecPackLive == PackInit /\ [][PackNext]_vars /\ WF_vars(PackNext)

\* the stack never holds more than 8 frames; in the unpacking loop of a frame
\* the iterations made and the bits left add up to the bits of the frame
PackBounds ==
  /\ pc \in {"pack", "unpack"} => Len(ret.packed_moves) <= 8
  /\ (pc = "unpack" /\ ret.index < Len(ret.packed_moves)) =>
       ret.iterations + Cardinality(ret.move_copy)
         = Cardinality(ret.packed_moves[ret.index + 1].moves)

\* the step-by-step run returns what the generator returns
PackAgrees ==
  pc = "done" =>
    ret = IF call.op = "calculate_cardinal_moves_for_direction"
            THEN calculate_cardinal_moves_for_direction(board, call.piece, call.direction)
            ELSE calculate_diagonal_moves_for_direction(board, call.piece, call.direction)

\* C26: the packing loop of both slider generators terminates and its stack
\* never holds more than 8 frames; every destination-unpacking loop ends
\* after exactly popcount(mask) iterations.
C26_PackingTerminates == [](PackBounds /\ PackAgrees) /\ <>(pc = "done")

\* the queen on a1 below seven black pawns on a2..a8, the queen on b1 below an
\* empty file: seven frames with a capture and the empty eighth frame that
\* ends the loop
C26_Witness_EightFrames ==
  /\ pc = "unpack"
  /\ call.direction = "Up"
  /\ Len(ret.packed_moves) = 8
  /\ ret.packed_moves[7] = TempMove({SquareAt(1, 8), SquareAt(2, 8)}, {SquareAt(1, 8)})
  /\ ret.packed_moves[8].moves = {}

(***************************************************************************)
(* SpecErrors: the slider generators and check_for_pin on every piece and  *)
(* every direction                                                         *)
(***************************************************************************)
\* check_for_pin for the white king against the black sliders of the ray's class
CallCheckForPin(direction) ==
  /\ pc = "board"
  /\ pc' = "done"
  /\ call' = [op |-> "check_for_pin", direction |-> direction]
  /\ ret' = check_for_pin(board.white_kings, direction,
                          CompatibleSliders(board, TRUE, direction), board.white_pieces)
  /\ UNCHANGED <<map, board>>

MaxErrorPieces == 1

ErrorPlacements ==
  {<<Coord(5, 1), "WhiteKing">>, <<Coord(5, 2), "WhitePawn">>,
   <<Coord(5, 8), "BlackRook">>, <<Coord(1, 1), "WhiteQueen">>,
   <<Coord(3, 3), "BlackBishop">>, <<Coord(8, 4), "BlackQueen">>}

ErrorsNext ==
  \/ Place(ErrorPlacements, MaxErrorPieces)
  \/ FromBoardHashMap
  \/ \E piece_type \in PieceEnum, direction \in ChessDirection :
       CallCardinalMoves(piece_type, direction)
  \/ \E piece_type \in PieceEnum, direction \in ChessDirection :
       CallDiagonalMoves(piece_type, direction)
  \/ \E direction \in ChessDirection : CallCheckForPin(direction)

SpecErrors == BuildInit /\ [][ErrorsNext]_vars

\* the error of a call that returned one, "none" otherwise
ErrorKind == IF ret.ok THEN "none" ELSE ret.err.kind

\* piece first, direction second: the error a generator owes its caller
OwedError(pieces, directions) ==
  IF call.piece \notin pieces THEN "InvalidPieceType"
  ELSE IF call.direction \notin directions THEN "InvalidDirection"
  ELSE "none"

PinReturned == pc = "done" /\ call.op = "get_pieces_pinned_to_king"

KingsOf(b, white) == IF white THEN b.white_kings ELSE b.black_kings

OwnPieces(b, white) == IF white THEN b.white_pieces ELSE b.black_pieces

\* the squares of the ray from sq along d, sq itself excluded
Ray(sq, d) == UNION {Displaced(sq, d, j) : j \in 1 .. 7}

\* the rook, bishop and queen squares of the other side
EnemySliders(b, white) ==
  IF white THEN b.black_rooks \cup b.black_bishops \cup b.black_queens
           ELSE b.white_rooks \cup b.white_bishops \cup b.white_queens

\* C28: on every position with exactly one king of the side asked,
\* get_pieces_pinned_to_king(side) is a subset of that side's pieces, never
\* holds the king's own square, holds at most one square on each of the eight
\* rays from the king and so at most 8 squares, and holds only pieces that
\* stand on a ray between the king and an enemy slider.
C28_PinnedMaskShape ==
  (PinReturned /\ Cardinality(KingsOf(board, call.white)) = 1) =>
    LET kg == CHOOSE sq \in KingsOf(board, call.white) : TRUE
    IN /\ ret.mask \subseteq OwnPieces(board, call.white)
       /\ kg \notin ret.mask
       /\ \A d \in KingDirections : Cardinality(ret.mask \cap Ray(kg, d)) <= 1
       /\ Cardinality(ret.mask) <= 8
       /\ \A s \in ret.mask :
            \E d \in KingDirections :
              /\ s \in Ray(kg, d)
              /\ Ray(s, d) \cap EnemySliders(board, call.white) /= {}

\* the king on e1 with pawns on e2 and f2 and a black rook on e8: only the
\* pawn on the rook's file is returned
C28_Witness_OnlyThePawnOnTheFile ==
  /\ PinReturned
  /\ call.white
  /\ board.white_kings = {SquareAt(5, 1)}
  /\ board.white_pawns = {SquareAt(5, 2), SquareAt(6, 2)}
  /\ board.black_rooks = {SquareAt(5, 8)}
  /\ ret.mask = {SquareAt(5, 2)}

\* C29: for every position and side the mask returned equals the union of
\* check_for_pin over the four orthogonal rays with the rook-class attackers
\* and over the four diagonal rays with the bishop-class attackers, computed
\* without the short-circuit, and check_for_pin returns Ok on each of them.
C29_ShortCircuitIsNeutral ==
  PinReturned =>
    LET kings == KingsOf(board, call.white)
        own == OwnPieces(board, call.white)
        cardinal == CompatibleSliders(board, call.white, "Up")
        diagonal == CompatibleSliders(board, call.white, "UpRight")
    IN /\ get_pieces_cardinally_pinned_to_king(board, call.white)
            = PinsAlong(kings, CardinalDirections, cardinal, own)
       /\ get_pieces_diagonally_pinned_to_king(board, call.white)
            = PinsAlong(kings, DiagonalDirections, diagonal, own)
       /\ ret.mask = PinsAlong(kings, CardinalDirections, cardinal, own)
                       \cup PinsAlong(kings, DiagonalDirections, diagonal, own)
       /\ \A d \in CardinalDirections : check_for_pin(kings, d, cardinal, own).ok
       /\ \A d \in DiagonalDirections : check_for_pin(kings, d, diagonal, own).ok

\* the king on e1 behind its pawn on e2 with a black bishop on e8 and a black
\* rook on h4: neither class reaches the king's lines, both halves are skipped
C29_Witness_BothHalvesSkipped ==
  /\ PinReturned
  /\ call.white
  /\ board.white_kings = {SquareAt(5, 1)}
  /\ board.white_pawns = {SquareAt(5, 2)}
  /\ board.black_bishops = {SquareAt(5, 8)}
  /\ board.black_rooks = {SquareAt(8, 4)}
  /\ ret.mask = {}

=============================================================================
